------------------------- MODULE TransactionsProofs -------------------------
(***************************************************************************)
(* What the transactions of Statements leave behind, for any number of     *)
(* them at a time: recorded owners hold their policy, resources have their *)
(* recovery, and owner changes and creates do not deadlock.                *)
(***************************************************************************)
EXTENDS StatementsProofs

\* The rows that t has written and will keep: nobody else touches them.
Held(t) == ins[t] \cup upd[t]

\* Held rows exclude each other's keys and deletions, and what is updated or
\* deleted is there.
HeldApart ==
    \A s, t \in Tx : s # t => \A r \in Held(s), x \in Held(t) : ~ SameKey(r, x)

HeldKept == \A s, t \in Tx : s # t => Held(s) \cap del[t] = {}

DeletedApart == \A s, t \in Tx : s # t => del[s] \cap del[t] = {}

RowsThere ==
    \A t \in Tx : /\ upd[t] \subseteq db \cup ins[t]
                  /\ del[t] \cup todo[t] \subseteq db
                  /\ batch[t] \subseteq del[t]

Holding == HeldApart /\ HeldKept /\ DeletedApart /\ RowsThere

\* Where t is among the statements that a create and AddOwner have in common.
At(t) == IF call[t].op = "create" THEN pc[t] ELSE pc[t] + 1

Ended(x) == \A s \in Tx : x.by = s => pc[s] = 0

\* The rows that t works on, as far as it has come.
Working(t) ==
    Open(t) /\ call[t].op \in Inserting =>
        LET n == id[t].policy
            r == id[t].resource
        IN  /\ At(t) >= 3 =>
                  /\ r.path = call[t].path
                  /\ IF call[t].op = "create"
                     THEN r = Resource(call[t].path, t) /\ NewRows(t) \subseteq ins[t]
                     ELSE Ended(r)
            /\ At(t) >= 5 =>
                  /\ n \in Held(t) /\ n.path = call[t].path
                  /\ n.kind = IF At(t) >= 12 THEN "admin" ELSE "owner"
            /\ At(t) \in 6 .. 9 => Link(n, r) \in db \cup ins[t] \/ r \notin db \cup ins[t]
            /\ At(t) = 9 => Grant(call[t].user, n) \in Held(t)
            /\ At(t) >= 13 => Link(n, r) \in ins[t]
            /\ At(t) >= 15 => Metadata(n, r) \in ins[t]

\* When and why t holds a row.
HoldsFor(t, x) ==
    /\ call[t].op \in Inserting
    /\ x.tab = "resource" => call[t].op = "create" /\ pc[t] >= 3 /\ x \in NewRows(t)
    /\ x.tab = "policy" =>
          At(t) >= (IF x.kind = "admin" THEN 12 ELSE 5) /\ x.path = call[t].path
    /\ x.tab = "usr" => At(t) >= 4 /\ x = Usr(call[t].user) /\ x \in ins[t]
    /\ x.tab \notin {"resource", "policy", "usr"} => x.policy \in Held(t)
    /\ x.tab = "policy_resource" =>
          /\ At(t) >= 6
          /\ x.policy.kind = "admin" => x.resource \in NewRows(t)
    /\ x.tab = "policy_role" => At(t) >= 7
    /\ x.tab = "generated_policy_metadata" => At(t) >= 8
    /\ x.tab = "usr_policy" => At(t) >= 9
    /\ x.tab = "ownership_binding_metadata" => At(t) >= 10

\* What t has inserted: its policies are its own, its records backed.
Recorded(t, x) ==
    /\ x.tab = "policy" => x.by = t
    /\ x.tab = "generated_policy_metadata" => x.policy.path = x.resource.path
    /\ x.tab = "ownership_binding_metadata" =>
          /\ x.policy.path = x.resource.path /\ x.policy.kind = "owner"
          /\ Grant(x.user, x.policy) \in Held(t)
          /\ Link(x.policy, x.resource) \in db \cup ins[t]

Writing ==
    \A t \in Tx : /\ Working(t)
                  /\ \A x \in Held(t) : HoldsFor(t, x)
                  /\ \A x \in ins[t] : Recorded(t, x)

\* What RemoveOwner is about.
OwnerGrant(t, x) ==
    /\ x.tab = "usr_policy" /\ x.user = call[t].user
    /\ x.policy.path = call[t].path /\ x.policy.kind = "owner"

OwnerRecord(t, x) ==
    /\ x.tab = "ownership_binding_metadata" /\ x.user = call[t].user
    /\ x.resource.path = call[t].path
    /\ x.policy.path = call[t].path /\ x.policy.kind = "owner"

\* The second statement of t has not yet looked for its rows, or x is among
\* those it has found.
Awaits(t, x) ==
    \/ pc[t] = 1
    \/ pc[t] = 2 /\ phase[t] = "start"
    \/ x \in todo[t] \cup del[t]

\* RemoveOwner deletes grants, then records; a grant only with its records.
Removing(t) ==
    Open(t) /\ call[t].op = "removeOwner" =>
        /\ \A x \in del[t] : OwnerGrant(t, x) \/ (pc[t] # 1 /\ OwnerRecord(t, x))
        /\ \A x \in todo[t] : IF pc[t] = 1 THEN OwnerGrant(t, x) ELSE OwnerRecord(t, x)
        /\ todo[t] \cap del[t] = {}
        /\ \A b \in db : b.tab = "ownership_binding_metadata"
                         /\ Grant(b.user, b.policy) \in del[t] => Awaits(t, b)

\* The deletes delete policies and resources, and the rest with a policy or a
\* resource; an admin policy only with the resource that needs it.
Dropping(t) ==
    Open(t) /\ call[t].op \in {"delete", "genericDelete"} =>
        /\ \A x \in del[t] \cup todo[t] :
              x.tab \in {"resource", "policy"} \/ Refs(x) \cap del[t] # {}
        /\ \A n \in del[t] \cup todo[t] : n.tab = "policy" =>
              /\ n.path = call[t].path
              /\ n \in todo[t] => pc[t] = 1
              /\ n.kind = "admin" /\ n \in del[t] =>
                    \A r \in db : /\ r.tab = "resource" /\ r.path = n.path
                                  /\ \A p \in Path : Container[p] # r.path
                                  => Awaits(t, r)

\* A container goes with the resource it was created with.
ContainerPending(t) ==
    \A x \in del[t], c \in db \ del[t] :
        /\ x.tab = "resource" /\ c.tab = "resource"
        /\ c.by = x.by /\ c.path = Container[x.path]
        => x \in batch[t] \/ (phase[t] = "rows" /\ c \in todo[t])

Erasing == \A t \in Tx : Removing(t) /\ Dropping(t) /\ ContainerPending(t)

\* The committed rows.
Committed ==
    /\ Generated(db) /\ Recoverable(db) /\ OwnersHold(db)
    /\ \A x \in db : x.tab \in {"resource", "policy"} => Ended(x)

FullInv == IndInv /\ Holding /\ Writing /\ Erasing /\ Committed

----------------------------------------------------------------------------
(* Keys, references and positions.                                         *)

\* What the key of a row says about the row.
LEMMA KeysTell ==
    ASSUME NEW r \in Row, NEW x \in Row, SameKey(r, x)
    PROVE  /\ x.tab = r.tab
           /\ r.tab = "resource" => x.path = r.path
           /\ r.tab = "policy" => x.path = r.path /\ x.kind = r.kind
           /\ r.tab \in {"usr", "policy_role", "policy_resource"} => x = r
           /\ r.tab = "generated_policy_metadata" => x.policy = r.policy
           /\ r.tab = "usr_policy" => x = r
           /\ r.tab = "ownership_binding_metadata" => x.policy = r.policy /\ x.user = r.user
<1>1. x.tab = r.tab /\ Key(r) = Key(x)
  BY DEF SameKey
<1>2. r.tab = "resource" => x.path = r.path
  BY <1>1 DEF Key
<1>3. r.tab = "policy" => x.path = r.path /\ x.kind = r.kind
  BY <1>1 DEF Key
<1>4. r.tab = "generated_policy_metadata" => x.policy = r.policy
  BY <1>1 DEF Key
<1>5. r.tab \in {"usr_policy", "ownership_binding_metadata"} => x.policy = r.policy /\ x.user = r.user
  BY <1>1 DEF Key
<1>6. r.tab = "policy_resource" => x.policy = r.policy /\ x.resource = r.resource
  BY <1>1 DEF Key
<1>7. r.tab = "policy_resource" => x = r
  <2>1. ASSUME NEW y \in Row, y.tab = "policy_resource"
        PROVE  y = [tab |-> "policy_resource", policy |-> y.policy, resource |-> y.resource]
    BY <2>1 DEF Row, PolicyRow, ResourceRow
  <2> QED
    BY <1>1, <1>6, <2>1
<1>8. r.tab = "usr_policy" => x = r
  <2>1. ASSUME NEW y \in Row, y.tab = "usr_policy"
        PROVE  y = [tab |-> "usr_policy", user |-> y.user, policy |-> y.policy]
    BY <2>1 DEF Row, PolicyRow, ResourceRow
  <2> QED
    BY <1>1, <1>5, <2>1
<1>9. r.tab = "usr" => x = r
  <2>1. r.tab = "usr" => x.name = r.name
    BY <1>1 DEF Key
  <2>2. ASSUME NEW y \in Row, y.tab = "usr"
        PROVE  y = [tab |-> "usr", name |-> y.name]
    BY <2>2 DEF Row, PolicyRow, ResourceRow
  <2> QED
    BY <1>1, <2>1, <2>2
<1>10. r.tab = "policy_role" => x = r
  <2>1. r.tab = "policy_role" => x.policy = r.policy
    BY <1>1 DEF Key
  <2>2. ASSUME NEW y \in Row, y.tab = "policy_role"
        PROVE  y = [tab |-> "policy_role", policy |-> y.policy]
    BY <2>2 DEF Row, PolicyRow, ResourceRow
  <2> QED
    BY <1>1, <2>1, <2>2
<1> QED
  BY <1>1, <1>2, <1>3, <1>4, <1>5, <1>7, <1>8, <1>9, <1>10

\* The other way round, for the rows that are referred to.
LEMMA KeyOf ==
    ASSUME NEW r \in Row, NEW x \in Row, r.tab = x.tab
    PROVE  /\ r.tab = "resource" /\ r.path = x.path => SameKey(r, x)
           /\ r.tab = "policy" /\ r.path = x.path /\ r.kind = x.kind => SameKey(r, x)
BY DEF SameKey, Key

LEMMA SameKeyTransitive ==
    ASSUME NEW r, NEW x, NEW y, SameKey(r, x), SameKey(x, y)
    PROVE  SameKey(r, y)
BY DEF SameKey

\* Rows by table, and what they refer to.
LEMMA RowOf ==
    ASSUME NEW x \in Row
    PROVE  /\ x.tab = "resource" <=> x \in ResourceRow
           /\ x.tab = "policy" <=> x \in PolicyRow
           /\ Refs(x) = {} <=> x.tab \in {"resource", "policy", "usr"}
           /\ x.tab \notin {"resource", "policy", "usr"} =>
                 x.policy \in PolicyRow /\ x.policy \in Refs(x)
           /\ x.tab = "policy_role" => Refs(x) = {x.policy}
           /\ x.tab = "usr_policy" => Refs(x) = {x.policy} /\ x.user \in User
           /\ x.tab \in {"policy_resource", "generated_policy_metadata",
                         "ownership_binding_metadata"} =>
                 x.resource \in ResourceRow /\ Refs(x) = {x.policy, x.resource}
           /\ x.tab \in {"resource", "policy", "usr", "policy_role", "policy_resource",
                         "generated_policy_metadata", "usr_policy", "ownership_binding_metadata"}
           /\ x.tab = "ownership_binding_metadata" => x.user \in User
           /\ x.tab = "resource" => x.path \in Path /\ x.by \in Tx \cup {"seed"}
           /\ x.tab = "policy" => x.path \in Path /\ x.kind \in {"owner", "admin"}
<1>1. CASE x \in ResourceRow
  BY <1>1 DEF ResourceRow, PolicyRow, Refs
<1>2. CASE x \in PolicyRow
  BY <1>2 DEF ResourceRow, PolicyRow, Refs
<1>3. CASE x \in [tab : {"policy_resource", "generated_policy_metadata"},
                  policy : PolicyRow, resource : ResourceRow]
  BY <1>3 DEF Refs, PolicyRow, ResourceRow
<1>4. CASE x \in [tab : {"usr_policy"}, user : User, policy : PolicyRow]
  BY <1>4 DEF Refs, PolicyRow, ResourceRow
<1>5. CASE x \in [tab : {"ownership_binding_metadata"}, user : User, policy : PolicyRow,
                  resource : ResourceRow]
  BY <1>5 DEF Refs, PolicyRow, ResourceRow
<1>6. CASE x \in [tab : {"usr"}, name : User]
  BY <1>6 DEF Refs, PolicyRow, ResourceRow
<1>7. CASE x \in [tab : {"policy_role"}, policy : PolicyRow]
  BY <1>7 DEF Refs, PolicyRow, ResourceRow
<1> QED
  BY <1>1, <1>2, <1>3, <1>4, <1>5, <1>6, <1>7 DEF Row

\* Where a transaction that inserts is.
LEMMA Position ==
    ASSUME Control, NEW t \in Tx, Open(t), call[t].op \in Inserting
    PROVE  /\ At(t) \in 1 .. 16 /\ call[t] \in Request
           /\ call[t].op = "create" => At(t) = pc[t]
           /\ call[t].op # "create" => At(t) = pc[t] + 1 /\ At(t) <= 11 /\ call[t].op = "addOwner"
           /\ Statement(t) = "user" <=> At(t) = 3
           /\ Statement(t) = "ownerPolicy" <=> At(t) = 4
           /\ Statement(t) = "ownerLink" <=> At(t) = 5
           /\ Statement(t) = "ownerRole" <=> At(t) = 6
           /\ Statement(t) = "ownerMetadata" <=> At(t) = 7
           /\ Statement(t) = "grant" <=> At(t) = 8
           /\ Statement(t) = "binding" <=> At(t) = 9
           /\ Statement(t) = "ownerContainer" <=> At(t) = 10
           /\ Statement(t) = "adminPolicy" <=> call[t].op = "create" /\ At(t) = 11
           /\ Statement(t) = "adminLink" <=> At(t) = 12
           /\ Statement(t) = "adminRole" <=> At(t) = 13
           /\ Statement(t) = "adminMetadata" <=> At(t) = 14
           /\ Statement(t) = "adminContainer" <=> At(t) = 15
           /\ Statement(t) = "commit" <=> At(t) = IF call[t].op = "create" THEN 16 ELSE 11
           /\ Statement(t) \notin Deletes /\ Statement(t) # "protection"
<1>1. call[t] \in Request /\ pc[t] \in 1 .. 16 /\ (call[t].op = "addOwner" => pc[t] <= 10)
  BY DEF Control, Typed, Shaped, Open
<1>2. CASE call[t].op = "create"
  <2>1. pc[t] \in {1, 2, 3, 4, 5, 6, 7, 8, 9, 10, 11, 12, 13, 14, 15, 16}
    BY <1>1
  <2>2. At(t) = pc[t]
    BY <1>2 DEF At
  <2> QED
    BY <1>1, <1>2, <2>1, <2>2, StatementAt DEF Deletes
<1>3. CASE call[t].op = "addOwner"
  <2>1. pc[t] \in {1, 2, 3, 4, 5, 6, 7, 8, 9, 10}
    BY <1>1, <1>3
  <2>2. At(t) = pc[t] + 1
    BY <1>3 DEF At
  <2> QED
    BY <1>1, <1>3, <2>1, <2>2, StatementAt DEF Deletes
<1> QED
  BY <1>2, <1>3 DEF Inserting

----------------------------------------------------------------------------
(* The other transactions, while nothing commits.                          *)

Orderly(s) ==
    /\ Working(s) /\ (\A x \in Held(s) : HoldsFor(s, x)) /\ (\A x \in ins[s] : Recorded(s, x))
    /\ Removing(s) /\ Dropping(s) /\ ContainerPending(s)

LEMMA StillEnded ==
    ASSUME Control, NEW t \in Tx, Elsewhere(t), Open(t) \/ pc'[t] = 0, NEW x, Ended(x)
    PROVE  Ended(x)'
BY DEF Ended, Elsewhere, Open

LEMMA OthersKept ==
    ASSUME FullInv, NEW t \in Tx, Open(t), Elsewhere(t), db' = db,
           NEW s \in Tx \ {t}, todo'[s] = todo[s]
    PROVE  Orderly(s)'
<1>1. /\ At(s)' = At(s) /\ NewRows(s)' = NewRows(s) /\ Held(s)' = Held(s)
      /\ Open(s)' <=> Open(s)
      /\ pc'[s] = pc[s] /\ call'[s] = call[s] /\ id'[s] = id[s] /\ phase'[s] = phase[s]
      /\ ins'[s] = ins[s] /\ del'[s] = del[s] /\ upd'[s] = upd[s] /\ batch'[s] = batch[s]
  BY DEF Elsewhere, At, NewRows, Held, Open
<1>2. /\ Working(s) /\ (\A x \in Held(s) : HoldsFor(s, x)) /\ (\A x \in ins[s] : Recorded(s, x))
      /\ Removing(s) /\ Dropping(s) /\ ContainerPending(s)
  BY DEF FullInv, Writing, Erasing
<1>3. Working(s)'
  <2>1. \A q \in Tx : pc[q] = 0 => pc'[q] = 0
    BY DEF Elsewhere, Open
  <2>2. Ended(id[s].resource) => Ended(id[s].resource)'
    BY <1>1, <2>1 DEF Ended
  <2> QED
    BY <1>1, <1>2, <2>2 DEF Working
<1>4. \A x \in Held(s)' : HoldsFor(s, x)'
  BY <1>1, <1>2 DEF HoldsFor
<1>5. \A x \in ins'[s] : Recorded(s, x)'
  BY <1>1, <1>2 DEF Recorded
<1>6. Removing(s)'
  BY <1>1, <1>2 DEF Removing, OwnerGrant, OwnerRecord, Awaits
<1>7. Dropping(s)'
  BY <1>1, <1>2 DEF Dropping, Awaits
<1>8. ContainerPending(s)'
  BY <1>1, <1>2 DEF ContainerPending
<1> QED
  BY <1>3, <1>4, <1>5, <1>6, <1>7, <1>8 DEF Orderly

LEMMA CommittedKept ==
    ASSUME FullInv, NEW t \in Tx, Elsewhere(t), Open(t) \/ pc'[t] = 0, db' = db
    PROVE  Committed'
<1>1. \A x \in db : x.tab \in {"resource", "policy"} => Ended(x)'
  BY StillEnded DEF FullInv, IndInv, Committed
<1> QED
  BY <1>1 DEF FullInv, Committed, Generated, Recoverable, OwnersHold

LEMMA FromParts ==
    ASSUME NEW t \in Tx, IndInv', Holding', Committed', Orderly(t)',
           \A s \in Tx \ {t} : Orderly(s)'
    PROVE  FullInv'
BY DEF FullInv, Writing, Erasing, Orderly

\* The end without a commit.
LEMMA RollbackFull ==
    ASSUME FullInv, NEW t \in Tx, Open(t), Rollback(t)
    PROVE  FullInv'
<1>1. IndInv' /\ Elsewhere(t)
  BY RollbackLocked, RollbackControl DEF FullInv, IndInv
<1>2. /\ pc'[t] = 0 /\ ins'[t] = {} /\ del'[t] = {} /\ upd'[t] = {} /\ todo'[t] = {}
      /\ batch'[t] = {} /\ db' = db /\ \A s \in Tx \ {t} : todo'[s] = todo[s]
  BY DEF Rollback, End, FullInv, IndInv, Control, Typed
<1>3. Committed' /\ \A s \in Tx \ {t} : Orderly(s)'
  BY <1>1, <1>2, CommittedKept, OthersKept
<1>4. Orderly(t)'
  BY <1>2 DEF Orderly, Working, Held, Removing, Dropping, ContainerPending, Open
<1>5. Holding'
  <2>1. HeldApart' /\ HeldKept'
    BY <1>1, <1>2 DEF Elsewhere, FullInv, Holding, HeldApart, HeldKept, Held
  <2>2. DeletedApart' /\ RowsThere'
    BY <1>1, <1>2 DEF Elsewhere, FullInv, Holding, DeletedApart, RowsThere
  <2> QED
    BY <2>1, <2>2 DEF Holding
<1> QED
  BY <1>1, <1>3, <1>4, <1>5, FromParts

----------------------------------------------------------------------------
(* The commit.                                                             *)

\* What is deleted and refers to something is a grant or record that
\* RemoveOwner has selected, or goes with what it refers to.
LEMMA DeletedFor ==
    ASSUME FullInv, NEW t \in Tx, NEW x \in del[t], Refs(x) \cap del[t] = {}
    PROVE  /\ call[t].op = "removeOwner" =>
                 x.tab \in {"usr_policy", "ownership_binding_metadata"}
           /\ call[t].op # "removeOwner" => x.tab \in {"resource", "policy"}
<1>1. Open(t) /\ call[t].op \notin Inserting /\ call[t].op \in Operations
  BY Holders DEF FullInv, IndInv, Control, Shaped, Open, Request
<1>2. CASE call[t].op = "removeOwner"
  BY <1>1, <1>2 DEF FullInv, Erasing, Removing, OwnerGrant, OwnerRecord
<1>3. CASE call[t].op \in {"delete", "genericDelete"}
  <2>1. x.tab \in {"resource", "policy"}
    BY <1>1, <1>3 DEF FullInv, Erasing, Dropping
  <2> QED
    BY <1>3, <2>1
<1> QED
  BY <1>1, <1>2, <1>3 DEF Operations, Inserting

\* A create that is about to commit has written its recovery.
LEMMA CreateDone ==
    ASSUME FullInv, NEW t \in Tx, Open(t), Statement(t) = "commit", call[t].op = "create"
    PROVE  /\ id[t].policy \in Held(t) /\ id[t].policy.path = call[t].path
           /\ id[t].policy.kind = "admin"
           /\ id[t].resource = Resource(call[t].path, t) /\ NewRows(t) \subseteq ins[t]
           /\ Link(id[t].policy, id[t].resource) \in ins[t]
           /\ Metadata(id[t].policy, id[t].resource) \in ins[t]
           /\ id[t].policy \in PolicyRow
<1>1. At(t) = 16
  BY Position DEF FullInv, IndInv, Inserting
<1>2. Working(t) /\ call[t].op \in Inserting /\ At(t) >= 3 /\ At(t) >= 5 /\ At(t) >= 12 /\ At(t) >= 13
      /\ At(t) >= 15 /\ At(t) = pc[t] /\ pc[t] >= 5
  BY <1>1 DEF FullInv, Writing, Inserting, At
<1>3. id[t].policy \in PolicyRow
  BY <1>2 DEF FullInv, IndInv, Control, Resolved, Open
<1> QED
  BY <1>2, <1>3 DEF Working

\* Held rows of one transaction have different keys.
LEMMA HeldUnique ==
    ASSUME FullInv, NEW t \in Tx, NEW x \in Held(t), NEW y \in Held(t), SameKey(x, y)
    PROVE  x = y
<1>1. x \in db \cup ins[t] /\ y \in db \cup ins[t]
  BY DEF FullInv, Holding, RowsThere, Held
<1> QED
  BY <1>1, RowFacts DEF FullInv, IndInv, Locked, KeysUnique, InsertedFresh, InsertedUnique

\* A resource that a create inserts for its path.
LEMMA CreatedPath ==
    ASSUME FullInv, NEW t \in Tx, NEW r \in ins[t], r.tab = "resource"
    PROVE  /\ Open(t) /\ call[t].op = "create" /\ call[t] \in Request
           /\ r.by = t /\ r \in NewRows(t) /\ r.path \in WithContainer(call[t].path)
           /\ (\A p \in Path : Container[p] # r.path) => r = Resource(call[t].path, t)
<1>1. Open(t)
  BY Holders DEF FullInv, IndInv
<1>2. call[t].op = "create" /\ r \in NewRows(t) /\ call[t] \in Request
  BY <1>1 DEF FullInv, Writing, Held, HoldsFor, IndInv, Control, Shaped, Open
<1>3. PICK q \in WithContainer(call[t].path) : r = Resource(q, t)
  BY <1>2 DEF NewRows
<1>4. r.by = t /\ r.path = q
  BY <1>3 DEF Resource
<1>5. q = call[t].path \/ q = Container[call[t].path]
  BY DEF WithContainer
<1> QED
  BY <1>1, <1>2, <1>3, <1>4, <1>5 DEF Request

\* At the commit nothing is pending.
LEMMA NothingPending ==
    ASSUME FullInv, NEW t \in Tx, Open(t), Statement(t) = "commit"
    PROVE  /\ phase[t] = "start" /\ todo[t] = {} /\ batch[t] = {}
           /\ \A y \in db \ del[t] : Refs(y) \cap del[t] = {}
           /\ \A x : Awaits(t, x) /\ call[t].op \in Deleting => x \in del[t]
           /\ ins[t] # {} => del[t] = {}
<1>1. phase[t] = "start" /\ todo[t] = {} /\ batch[t] = {}
  BY DEF FullInv, IndInv, Control, Shaped, Deletes
<1>2. \A y \in db \ del[t] : Refs(y) \cap del[t] = {}
  BY <1>1 DEF FullInv, IndInv, Locked, CascadesPending
<1>3. call[t].op \in Deleting => pc[t] \notin {1, 2}
  <2>1. call[t] \in Request /\ pc[t] \in 1 .. 16
    BY WhoRuns DEF FullInv, IndInv
  <2> QED
    BY <2>1, StatementAt DEF Deleting
<1>4. \A x : Awaits(t, x) /\ call[t].op \in Deleting => x \in del[t]
  BY <1>1, <1>3 DEF Awaits
<1> QED
  BY <1>1, <1>2, <1>4, Holders DEF FullInv, IndInv

\* What a commit leaves in the database.
Committing(t) ==
    /\ Statement(t) = "commit" /\ End(t) /\ db' = Visible(t)
    /\ todo' = [s \in Tx |-> IF s = t THEN {} ELSE todo[s] \ del[t]]

LEMMA CommitFacts ==
    ASSUME FullInv, NEW t \in Tx, Open(t), Committing(t)
    PROVE  /\ IndInv' /\ Elsewhere(t)
           /\ pc'[t] = 0 /\ ins'[t] = {} /\ del'[t] = {} /\ upd'[t] = {} /\ todo'[t] = {}
           /\ batch'[t] = {} /\ db' = (db \ del[t]) \cup ins[t]
           /\ \A s \in Tx \ {t} : todo'[s] = todo[s] \ del[t]
           /\ \A q \in Tx : pc[q] = 0 => pc'[q] = 0
<1>1. IndInv' /\ Elsewhere(t)
  BY CommitLocked, CommitControl DEF Committing, FullInv, IndInv
<1>2. /\ pc'[t] = 0 /\ ins'[t] = {} /\ del'[t] = {} /\ upd'[t] = {} /\ todo'[t] = {}
      /\ batch'[t] = {} /\ db' = (db \ del[t]) \cup ins[t]
      /\ \A s \in Tx \ {t} : todo'[s] = todo[s] \ del[t]
  BY DEF Committing, Visible, End, FullInv, IndInv, Control, Typed
<1> QED
  BY <1>1, <1>2 DEF Elsewhere

LEMMA CommitHolding ==
    ASSUME FullInv, NEW t \in Tx, Open(t), Committing(t)
    PROVE  Holding'
<1>1. HeldApart' /\ HeldKept' /\ DeletedApart'
  BY CommitFacts DEF Elsewhere, FullInv, Holding, HeldApart, HeldKept, DeletedApart, Held
<1>2. ASSUME NEW s \in Tx \ {t}
      PROVE  upd[s] \subseteq db' \cup ins[s] /\ del[s] \cup todo'[s] \subseteq db'
             /\ batch[s] \subseteq del[s]
  <2>1. upd[s] \cap del[t] = {} /\ del[s] \cap del[t] = {}
    BY DEF FullInv, Holding, HeldKept, DeletedApart, Held
  <2> QED
    BY <2>1, CommitFacts DEF FullInv, Holding, RowsThere
<1>3. RowsThere'
  BY <1>2, CommitFacts DEF Elsewhere, RowsThere
<1> QED
  BY <1>1, <1>3 DEF Holding

LEMMA CommitRecovery ==
    ASSUME FullInv, NEW t \in Tx, Open(t), Committing(t)
    PROVE  Recoverable(db')
<1> SUFFICES ASSUME NEW r \in db', r.tab = "resource", \A p \in Path : Container[p] # r.path
             PROVE  \E n \in db' : /\ n.tab = "policy" /\ n.kind = "admin" /\ n.path = r.path
                                   /\ {Link(n, r), Metadata(n, r)} \subseteq db'
  BY DEF Recoverable
<1>0. /\ db' = (db \ del[t]) \cup ins[t] /\ Statement(t) = "commit"
      /\ db \subseteq Row /\ ins[t] \subseteq Row
  BY CommitFacts DEF Committing, FullInv, IndInv, Control, Typed
<1>1. CASE r \in db \ del[t]
  <2>1. PICK n \in db : /\ n.tab = "policy" /\ n.kind = "admin" /\ n.path = r.path
                        /\ {Link(n, r), Metadata(n, r)} \subseteq db
    BY <1>1 DEF FullInv, Committed, Recoverable
  <2>2. n \notin del[t]
    <3> SUFFICES ASSUME n \in del[t] PROVE FALSE
      OBVIOUS
    <3>1. Refs(n) = {} /\ Refs(n) \cap del[t] = {}
      BY <1>0, <2>1, RowOf
    <3>2. call[t].op # "removeOwner"
      BY <2>1, <3>1, DeletedFor
    <3>3. call[t].op \in {"delete", "genericDelete"} /\ call[t].op \in Deleting
      BY <3>2, Holders DEF FullInv, IndInv, Control, Shaped, Open, Request, Operations,
                           Inserting, Deleting
    <3>4. Awaits(t, r)
      BY <1>1, <2>1, <3>3 DEF FullInv, Erasing, Dropping
    <3> QED
      BY <1>0, <1>1, <3>3, <3>4, NothingPending
  <2>3. ASSUME NEW y \in {Link(n, r), Metadata(n, r)} PROVE y \in db \ del[t]
    <3>1. y \in db /\ y \in Row /\ y.tab \in {"policy_resource", "generated_policy_metadata"}
          /\ y.policy = n /\ y.resource = r
      BY <1>0, <2>1 DEF Link, Metadata
    <3>2. Refs(y) = {n, r}
      BY <3>1, RowOf
    <3>3. y \in del[t] => call[t].op # "removeOwner" /\ Refs(y) \cap del[t] = {}
      BY <1>1, <2>2, <3>1, <3>2, DeletedFor
    <3> QED
      BY <3>1, <3>3, DeletedFor
  <2> QED
    BY <1>0, <2>1, <2>2, <2>3
<1>2. CASE r \in ins[t]
  <2>1. r = Resource(call[t].path, t) /\ call[t].op = "create"
    BY <1>2, CreatedPath
  <2>2. r = id[t].resource /\ Link(id[t].policy, r) \in ins[t] /\ Metadata(id[t].policy, r) \in ins[t]
        /\ id[t].policy.kind = "admin" /\ id[t].policy.path = r.path
        /\ id[t].policy \in PolicyRow /\ id[t].policy \in Held(t)
    BY <1>0, <2>1, CreateDone DEF Resource
  <2>3. id[t].policy \in db' /\ id[t].policy.tab = "policy"
    <3>1. del[t] = {}
      BY <1>0, <1>2, NothingPending
    <3> QED
      BY <1>0, <2>2, <3>1 DEF FullInv, Holding, RowsThere, Held, PolicyRow
  <2> QED
    BY <1>0, <2>2, <2>3
<1> QED
  BY <1>0, <1>1, <1>2

LEMMA CommitOwners ==
    ASSUME FullInv, NEW t \in Tx, Open(t), Committing(t)
    PROVE  OwnersHold(db')
<1> SUFFICES ASSUME NEW b \in db', b.tab = "ownership_binding_metadata"
             PROVE  Grant(b.user, b.policy) \in db' /\ Link(b.policy, b.resource) \in db'
  BY DEF OwnersHold
<1> DEFINE g == Grant(b.user, b.policy)
           l == Link(b.policy, b.resource)
<1>0. /\ db' = (db \ del[t]) \cup ins[t] /\ Statement(t) = "commit"
      /\ db \subseteq Row /\ ins[t] \subseteq Row
  BY CommitFacts DEF Committing, FullInv, IndInv, Control, Typed
<1>1. CASE b \in db \ del[t]
  <2>1. g \in db /\ l \in db /\ b \in Row
    BY <1>0, <1>1 DEF FullInv, Committed, OwnersHold
  <2>2. b.policy \notin del[t] /\ b.resource \notin del[t]
    BY <1>0, <1>1, <2>1, RowOf, NothingPending
  <2>3. g.tab = "usr_policy" /\ g.policy = b.policy
        /\ l.tab = "policy_resource" /\ l.policy = b.policy /\ l.resource = b.resource
    BY DEF Grant, Link
  <2>4. g \in Row /\ l \in Row
    BY <1>0, <2>1
  <2> HIDE DEF g, l
  <2>5. Refs(g) = {b.policy} /\ Refs(l) = {b.policy, b.resource}
    BY <2>3, <2>4, RowOf
  <2>6. l \notin del[t]
    BY <2>2, <2>3, <2>5, DeletedFor
  <2>7. g \notin del[t]
    <3> SUFFICES ASSUME g \in del[t] PROVE FALSE
      OBVIOUS
    <3>1. call[t].op = "removeOwner"
      BY <2>2, <2>3, <2>5, DeletedFor
    <3>2. Awaits(t, b)
      BY <1>1, <3>1 DEF FullInv, Erasing, Removing, g
    <3> QED
      BY <1>0, <1>1, <3>1, <3>2, NothingPending DEF Deleting
  <2> QED
    BY <1>0, <2>1, <2>6, <2>7 DEF g, l
<1>2. CASE b \in ins[t]
  <2>1. g \in Held(t) /\ l \in db \cup ins[t]
    BY <1>2 DEF FullInv, Writing, Recorded
  <2>2. del[t] = {} /\ Held(t) \subseteq db \cup ins[t]
    BY <1>0, <1>2, NothingPending DEF FullInv, Holding, RowsThere, Held
  <2> QED
    BY <1>0, <2>1, <2>2
<1> QED
  BY <1>0, <1>1, <1>2

LEMMA CommitGenerated ==
    ASSUME FullInv, NEW t \in Tx, Open(t), Committing(t)
    PROVE  Generated(db')
<1>0. /\ db' = (db \ del[t]) \cup ins[t] /\ Statement(t) = "commit"
      /\ db \subseteq Row /\ ins[t] \subseteq Row
  BY CommitFacts DEF Committing, FullInv, IndInv, Control, Typed
<1>1. ASSUME NEW m \in db'
      PROVE  /\ m.tab \in {"generated_policy_metadata", "ownership_binding_metadata"} =>
                   m.policy.path = m.resource.path
             /\ m.tab = "ownership_binding_metadata" => m.policy.kind = "owner"
  BY <1>0 DEF FullInv, Committed, Generated, Writing, Recorded
<1>2. ASSUME NEW l \in db', l.tab = "policy_resource", l.policy.kind = "admin"
      PROVE  \E m \in db' : /\ m.tab = "generated_policy_metadata" /\ m.policy = l.policy
                            /\ m.resource.by = l.resource.by
                            /\ l.resource.path \in WithContainer(m.resource.path)
  <2>1. CASE l \in db \ del[t]
    <3>1. PICK m \in db : /\ m.tab = "generated_policy_metadata" /\ m.policy = l.policy
                          /\ m.resource.by = l.resource.by
                          /\ l.resource.path \in WithContainer(m.resource.path)
      BY <1>2, <2>1 DEF FullInv, Committed, Generated
    <3>2. /\ Refs(l) = {l.policy, l.resource} /\ Refs(m) = {l.policy, m.resource}
          /\ l.resource \in ResourceRow /\ m.resource \in ResourceRow
      BY <1>0, <1>2, <2>1, <3>1, RowOf
    <3>3. l.policy \notin del[t] /\ l.resource \notin del[t] /\ l.resource \in db /\ m.resource \in db
      BY <1>0, <2>1, <3>2, NothingPending DEF FullInv, IndInv, Locked, ReferencesHold
    <3>4. m.resource \notin del[t]
      <4> SUFFICES ASSUME m.resource \in del[t] PROVE FALSE
        OBVIOUS
      <4>1. m.resource.tab = "resource" /\ l.resource.tab = "resource"
        BY <3>2 DEF ResourceRow
      <4>2. l.resource.path = m.resource.path \/ l.resource.path = Container[m.resource.path]
        BY <3>1 DEF WithContainer
      <4>3. CASE l.resource.path = Container[m.resource.path]
        <5>1. phase[t] = "start" /\ batch[t] = {}
          BY <1>0, NothingPending
        <5> QED
          BY <3>1, <3>3, <4>1, <4>3, <5>1 DEF FullInv, Erasing, ContainerPending
      <4>4. CASE l.resource.path = m.resource.path
        <5>1. SameKey(l.resource, m.resource)
          BY <1>0, <3>3, <4>1, <4>4, KeyOf
        <5> QED
          BY <3>3, <5>1 DEF FullInv, IndInv, Locked, KeysUnique
      <4> QED
        BY <4>2, <4>3, <4>4
    <3>5. Refs(m) \cap del[t] = {}
      BY <3>2, <3>3, <3>4
    <3>6. m \notin del[t]
      BY <3>1, <3>5, DeletedFor
    <3> QED
      BY <1>0, <3>1, <3>6
  <2>2. CASE l \in ins[t]
    <3>1. Open(t) /\ l \in Held(t) /\ HoldsFor(t, l) /\ l \in Row
      BY <1>0, <2>2 DEF FullInv, Writing, Held
    <3>2. l.policy \in Held(t) /\ l.resource \in NewRows(t) /\ call[t].op \in Inserting
          /\ l.policy \in PolicyRow
      BY <1>2, <3>1, RowOf DEF HoldsFor
    <3>3. HoldsFor(t, l.policy) /\ l.policy.tab = "policy"
      BY <3>2 DEF FullInv, Writing, PolicyRow
    <3>4. At(t) >= 12 /\ l.policy.path = call[t].path
      BY <1>2, <3>3 DEF HoldsFor
    <3>5. call[t].op = "create"
      <4>1. At(t) \in 1 .. 16 /\ (call[t].op # "create" => At(t) <= 11)
        BY <3>2, Position DEF FullInv, IndInv
      <4> QED
        BY <3>4, <4>1
    <3> DEFINE n == id[t].policy
               m == Metadata(id[t].policy, id[t].resource)
    <3>6. /\ n \in Held(t) /\ n.path = call[t].path /\ n.kind = "admin" /\ n \in PolicyRow
          /\ id[t].resource = Resource(call[t].path, t) /\ m \in ins[t]
      BY <1>0, <3>5, CreateDone
    <3>7. l.policy = n
      <4>1. SameKey(l.policy, n)
        BY <1>2, <3>2, <3>3, <3>4, <3>6, KeyOf, RowFacts DEF PolicyRow
      <4> QED
        BY <3>2, <3>6, <4>1, HeldUnique
    <3>8. l.resource.by = t /\ l.resource.path \in WithContainer(call[t].path)
      BY <3>2 DEF NewRows, Resource
    <3>9. m.tab = "generated_policy_metadata" /\ m.policy = n
          /\ m.resource.by = t /\ m.resource.path = call[t].path
      BY <3>6 DEF Metadata, Resource
    <3> HIDE DEF n, m
    <3> QED
      BY <1>0, <3>6, <3>7, <3>8, <3>9
  <2> QED
    BY <1>0, <2>1, <2>2
<1> QED
  BY <1>1, <1>2 DEF Generated

LEMMA CommitEnded ==
    ASSUME FullInv, NEW t \in Tx, Open(t), Committing(t)
    PROVE  \A x \in db' : x.tab \in {"resource", "policy"} => Ended(x)'
<1> SUFFICES ASSUME NEW x \in db', x.tab \in {"resource", "policy"} PROVE Ended(x)'
  OBVIOUS
<1>0. /\ db' = (db \ del[t]) \cup ins[t] /\ pc'[t] = 0
      /\ \A q \in Tx : pc[q] = 0 => pc'[q] = 0
  BY CommitFacts
<1>1. CASE x \in db \ del[t]
  <2>1. Ended(x)
    BY <1>1 DEF FullInv, Committed
  <2> QED
    BY <1>0, <2>1 DEF Ended
<1>2. CASE x \in ins[t]
  <2>1. x.by = t
    BY <1>2, CreatedPath DEF FullInv, Writing, Recorded
  <2> QED
    BY <1>0, <2>1 DEF Ended
<1> QED
  BY <1>0, <1>1, <1>2

\* A link or grant that s relies on is not deleted by t.
LEMMA LinkKept ==
    ASSUME FullInv, NEW t \in Tx, NEW l \in db, l.tab = "policy_resource",
           l.policy \notin del[t], l.resource \notin del[t]
    PROVE  l \notin del[t]
<1>1. Refs(l) = {l.policy, l.resource}
  BY RowOf DEF FullInv, IndInv, Control, Typed
<1> QED
  BY <1>1, DeletedFor

\* The others, when t commits.
LEMMA CommitOthers ==
    ASSUME FullInv, NEW t \in Tx, Open(t), Committing(t), NEW s \in Tx \ {t}
    PROVE  Orderly(s)'
<1>0. /\ db' = (db \ del[t]) \cup ins[t] /\ Statement(t) = "commit"
      /\ db \subseteq Row /\ ins[t] \subseteq Row /\ ins[s] \subseteq Row /\ del[s] \subseteq db
      /\ \A q \in Tx : pc[q] = 0 => pc'[q] = 0
      /\ todo'[s] = todo[s] \ del[t]
  BY CommitFacts DEF Committing, FullInv, IndInv, Control, Typed, Holding, RowsThere
<1>1. /\ At(s)' = At(s) /\ NewRows(s)' = NewRows(s) /\ Held(s)' = Held(s)
      /\ Open(s)' <=> Open(s)
      /\ pc'[s] = pc[s] /\ call'[s] = call[s] /\ id'[s] = id[s] /\ phase'[s] = phase[s]
      /\ ins'[s] = ins[s] /\ del'[s] = del[s] /\ upd'[s] = upd[s] /\ batch'[s] = batch[s]
  BY CommitFacts DEF Elsewhere, At, NewRows, Held, Open
<1>2. /\ Working(s) /\ (\A x \in Held(s) : HoldsFor(s, x)) /\ (\A x \in ins[s] : Recorded(s, x))
      /\ Removing(s) /\ Dropping(s) /\ ContainerPending(s)
  BY DEF FullInv, Writing, Erasing
<1>3. Working(s)'
  <2> SUFFICES ASSUME Open(s), call[s].op \in Inserting PROVE Working(s)'
    BY <1>1 DEF Working
  <2> DEFINE n == id[s].policy
             r == id[s].resource
  <2>1. Ended(id[s].resource) => Ended(id[s].resource)'
    BY <1>0, <1>1 DEF Ended
  <2>2. ASSUME At(s) \in 6 .. 9
        PROVE  Link(n, r) \in db' \cup ins[s] \/ r \notin db' \cup ins[s]
    <3>0. At(s) >= 3 /\ At(s) >= 5
      BY <2>2
    <3>1. n \in Held(s) /\ n \notin del[t]
      BY <1>2, <2>2, <3>0 DEF Working, FullInv, Holding, HeldKept
    <3>2. CASE Link(n, r) \in ins[s]
      BY <3>2
    <3>3. CASE Link(n, r) \in db
      <4>1. CASE r \in del[t]
        <5>1. r \in db /\ SameKey(r, r)
          BY <4>1, RowFacts DEF FullInv, Holding, RowsThere
        <5>2. r \notin ins[t] /\ r \notin ins[s]
          BY <5>1 DEF FullInv, IndInv, Locked, InsertedFresh
        <5> QED
          BY <1>0, <4>1, <5>2
      <4>2. CASE r \notin del[t]
        <5>1. Link(n, r).tab = "policy_resource" /\ Link(n, r).policy = n /\ Link(n, r).resource = r
          BY DEF Link
        <5>2. Link(n, r) \notin del[t]
          BY <3>1, <3>3, <4>2, <5>1, LinkKept
        <5> QED
          BY <1>0, <3>3, <5>2
      <4> QED
        BY <4>1, <4>2
    <3>4. CASE r \notin db \cup ins[s]
      <4>1. r \notin ins[t]
        <5> SUFFICES ASSUME r \in ins[t] PROVE FALSE
          OBVIOUS
        <5>1. r \in ResourceRow
          <6>1. CASE call[s].op = "create"
            BY <3>0, <6>1 DEF At, FullInv, IndInv, Control, Resolved, Open
          <6>2. CASE call[s].op = "addOwner"
            <7>1. pc[s] >= 2
              BY <3>0, <6>2 DEF At, FullInv, IndInv, Control, Typed
            <7> QED
              BY <6>2, <7>1 DEF FullInv, IndInv, Control, Resolved, Open
          <6> QED
            BY <6>1, <6>2 DEF Inserting
        <5>2. r.tab = "resource" /\ r.by = t
          BY <5>1, CreatedPath DEF ResourceRow
        <5>3. call[s].op # "create"
          <6>1. call[s].op = "create" => r.by = s
            BY <1>2, <3>0 DEF Working, Resource
          <6> QED
            BY <5>2, <6>1
        <5>4. Ended(r)
          BY <1>2, <3>0, <5>3 DEF Working
        <5> QED
          BY <5>2, <5>4 DEF Ended, Open
      <4> QED
        BY <1>0, <3>4, <4>1
    <3> QED
      BY <1>2, <2>2, <3>2, <3>3, <3>4 DEF Working
  <2> QED
    BY <1>1, <1>2, <2>1, <2>2 DEF Working
<1>4. \A x \in Held(s)' : HoldsFor(s, x)'
  BY <1>1, <1>2 DEF HoldsFor
<1>5. ASSUME NEW x \in ins[s] PROVE Recorded(s, x)'
  <2>1. ASSUME x.tab = "ownership_binding_metadata", Link(x.policy, x.resource) \in db
        PROVE  Link(x.policy, x.resource) \in db'
    <3>1. x.policy \notin del[t] /\ x.resource \notin del[t]
      BY <1>0, <2>1, RowOf DEF FullInv, IndInv, Locked, ReferencesKept
    <3>2. Link(x.policy, x.resource).tab = "policy_resource"
          /\ Link(x.policy, x.resource).policy = x.policy
          /\ Link(x.policy, x.resource).resource = x.resource
      BY DEF Link
    <3> QED
      BY <1>0, <2>1, <3>1, <3>2, LinkKept
  <2> QED
    BY <1>1, <1>2, <2>1 DEF Recorded
<1>6. Removing(s)'
  <2>1. ASSUME NEW b \in db', b.tab = "ownership_binding_metadata",
               Grant(b.user, b.policy) \in del[s], Open(s), call[s].op = "removeOwner"
        PROVE  Awaits(s, b)'
    <3>1. b \notin ins[t]
      BY <2>1 DEF FullInv, Writing, Recorded, Holding, HeldKept
    <3>2. b \in db /\ b \notin del[t] /\ Awaits(s, b)
      BY <1>0, <1>2, <2>1, <3>1 DEF Removing
    <3> QED
      BY <1>0, <1>1, <3>2 DEF Awaits
  <2> QED
    BY <1>0, <1>1, <1>2, <2>1 DEF Removing, OwnerGrant, OwnerRecord
<1>7. Dropping(s)'
  <2>1. ASSUME NEW n \in del[s], n.tab = "policy", n.kind = "admin", n.path = call[s].path,
               NEW r \in db', r.tab = "resource", r.path = n.path,
               \A p \in Path : Container[p] # r.path, Open(s),
               call[s].op \in {"delete", "genericDelete"}
        PROVE  Awaits(s, r)'
    <3>1. r \notin ins[t]
      <4> SUFFICES ASSUME r \in ins[t] PROVE FALSE
        OBVIOUS
      <4>1. call[t].op = "create" /\ r.path = call[t].path
        BY <2>1, CreatedPath DEF Resource
      <4> DEFINE a == id[t].policy
      <4>2. a \in Held(t) /\ a.path = n.path /\ a.kind = "admin" /\ a \in PolicyRow
        BY <1>0, <2>1, <4>1, CreateDone
      <4>3. SameKey(a, n) /\ n \in db
        BY <1>0, <2>1, <4>2, KeyOf, RowFacts DEF PolicyRow
      <4>4. a \in db
        BY <4>2, <4>3 DEF FullInv, Holding, RowsThere, Held, IndInv, Locked, InsertedFresh
      <4>5. a = n
        BY <4>3, <4>4 DEF FullInv, IndInv, Locked, KeysUnique
      <4> QED
        BY <2>1, <4>2, <4>5 DEF FullInv, Holding, HeldKept
    <3>2. r \in db /\ r \notin del[t] /\ Awaits(s, r)
      BY <1>0, <1>2, <2>1, <3>1 DEF Dropping
    <3> QED
      BY <1>0, <1>1, <3>2 DEF Awaits
  <2> QED
    BY <1>0, <1>1, <1>2, <2>1 DEF Dropping
<1>8. ContainerPending(s)'
  <2>1. ASSUME NEW x \in del[s], NEW c \in db' \ del[s], x.tab = "resource", c.tab = "resource",
               c.by = x.by, c.path = Container[x.path]
        PROVE  x \in batch[s] \/ (phase[s] = "rows" /\ c \in todo'[s])
    <3>1. c \notin ins[t]
      <4> SUFFICES ASSUME c \in ins[t] PROVE FALSE
        OBVIOUS
      <4>1. x.by = t /\ Ended(x)
        BY <1>0, <2>1, CreatedPath DEF FullInv, Committed
      <4> QED
        BY <4>1 DEF Ended, Open
    <3> QED
      BY <1>0, <1>2, <2>1, <3>1 DEF ContainerPending
  <2> QED
    BY <1>1, <2>1 DEF ContainerPending
<1> QED
  BY <1>1, <1>3, <1>4, <1>5, <1>6, <1>7, <1>8 DEF Orderly

LEMMA CommitFull ==
    ASSUME FullInv, NEW t \in Tx, Open(t), Committing(t)
    PROVE  FullInv'
<1>1. Orderly(t)'
  BY CommitFacts DEF Orderly, Working, Held, Removing, Dropping, ContainerPending, Open
<1>2. Committed'
  BY CommitGenerated, CommitRecovery, CommitOwners, CommitEnded
     DEF Committed, Generated, Recoverable, OwnersHold
<1> QED
  BY <1>1, <1>2, CommitFacts, CommitHolding, CommitOthers, FromParts

----------------------------------------------------------------------------
(* Deletes.                                                                *)

\* A transaction that deletes holds nothing.
LEMMA DeletingHoldsNothing ==
    ASSUME FullInv, NEW t \in Tx, Open(t), call[t].op \in Deleting
    PROVE  /\ ins[t] = {} /\ upd[t] = {} /\ Held(t) = {} /\ Visible(t) = db \ del[t]
           /\ call[t].op \notin Inserting
BY DEF FullInv, IndInv, Control, Shaped, Open, Held, Visible, Deleting, Inserting

\* What a step of a DELETE has to show.
LEMMA DeletingFull ==
    ASSUME FullInv, NEW t \in Tx, Open(t), call[t].op \in Deleting, IndInv', Elsewhere(t),
           UNCHANGED <<db, call, ins, upd>>, \A s \in Tx \ {t} : todo'[s] = todo[s],
           \A s \in Tx \ {t} : (Held(s) \cup del[s]) \cap del'[t] = {},
           del'[t] \cup todo'[t] \subseteq db, batch'[t] \subseteq del'[t],
           Removing(t)', Dropping(t)', ContainerPending(t)'
    PROVE  FullInv'
<1>1. Committed' /\ \A s \in Tx \ {t} : Orderly(s)'
  BY CommittedKept, OthersKept
<1>2. ins'[t] = {} /\ upd'[t] = {} /\ call'[t].op \notin Inserting
  BY DeletingHoldsNothing
<1>3. Orderly(t)'
  BY <1>2 DEF Orderly, Working, Held
<1>4. HeldApart' /\ HeldKept'
  BY <1>2, DeletingHoldsNothing
     DEF Elsewhere, FullInv, Holding, HeldApart, HeldKept, Held
<1>5. DeletedApart'
  BY DEF Elsewhere, FullInv, Holding, DeletedApart
<1>6. RowsThere'
  BY <1>2 DEF Elsewhere, FullInv, Holding, RowsThere
<1> QED
  BY <1>1, <1>3, <1>4, <1>5, <1>6, FromParts DEF Holding

\* The SELECT of a generic delete.
LEMMA ProtectionFull ==
    ASSUME FullInv, NEW t \in Tx, Open(t), CheckProtection(t), ~ Rollback(t), IndInv'
    PROVE  FullInv'
<1>1. call[t].op = "genericDelete" /\ pc[t] = 1 /\ Statement(t) = "protection"
  BY WhoRuns DEF FullInv, IndInv, CheckProtection
<1>2. phase[t] = "start" /\ call[t].op \in Deleting /\ Elsewhere(t)
  BY <1>1, DeleteControl DEF FullInv, IndInv, Control, Shaped, Deletes, Deleting
<1>3. pc'[t] = 2 /\ UNCHANGED <<db, call, ins, upd, del, phase, todo, batch>>
  BY <1>1 DEF CheckProtection, Advance, own, statement, FullInv, IndInv, Control, Typed
<1>4. Removing(t)' /\ Dropping(t)' /\ ContainerPending(t)'
  <2>1. todo[t] = {}
    BY <1>2 DEF FullInv, IndInv, Control, Shaped
  <2>2. Dropping(t)
    BY DEF FullInv, Erasing
  <2>3. Dropping(t)'
    BY <1>1, <1>2, <1>3, <2>1, <2>2 DEF Dropping, Awaits
  <2>4. Removing(t)' /\ ContainerPending(t)'
    BY <1>1, <1>3 DEF Removing, FullInv, Erasing, ContainerPending
  <2> QED
    BY <2>3, <2>4
<1>5. /\ \A s \in Tx \ {t} : (Held(s) \cup del[s]) \cap del'[t] = {}
      /\ del'[t] \cup todo'[t] \subseteq db /\ batch'[t] \subseteq del'[t]
      /\ \A s \in Tx \ {t} : todo'[s] = todo[s]
  BY <1>3 DEF FullInv, Holding, HeldKept, DeletedApart, RowsThere
<1> QED
  BY <1>2, <1>3, <1>4, <1>5, DeletingFull

\* What a DELETE looks for.
LEMMA SelectedFor ==
    ASSUME FullInv, NEW t \in Tx, Open(t), Statement(t) \in Deletes
    PROVE  /\ Selected(t) \subseteq db
           /\ call[t].op = "removeOwner" => Selected(t) \cap del[t] = {}
           /\ call[t].op = "removeOwner" /\ pc[t] = 1 => \A x \in Selected(t) : OwnerGrant(t, x)
           /\ call[t].op = "removeOwner" /\ pc[t] = 2 =>
                 /\ \A x \in Selected(t) : OwnerRecord(t, x)
                 /\ \A b \in db : OwnerRecord(t, b) => b \in Selected(t) \cup del[t]
           /\ call[t].op \in {"delete", "genericDelete"} =>
                 \A x \in Selected(t) :
                     /\ x.tab \in {"resource", "policy"}
                     /\ x.tab = "policy" => pc[t] = 1 /\ x.path = call[t].path
           /\ call[t].op \in {"delete", "genericDelete"} /\ pc[t] = 2 =>
                 \A r \in db : r.tab = "resource" /\ r.path = call[t].path =>
                     r \in Selected(t) \cup del[t]
<1>0. /\ call[t] \in Request /\ call[t].op \in Deleting /\ pc[t] \in {1, 2} /\ pc[t] \in 1 .. 16
      /\ Visible(t) = db \ del[t] /\ db \subseteq Row
  <2>1. call[t] \in Request /\ call[t].op \in Deleting /\ pc[t] \in {1, 2} /\ pc[t] \in 1 .. 16
    BY WhoRuns DEF FullInv, IndInv
  <2> QED
    BY <2>1, DeletingHoldsNothing DEF FullInv, IndInv, Control, Typed
<1> DEFINE B == {b \in Visible(t) : /\ b.tab = "ownership_binding_metadata"
                                    /\ b.resource.path = call[t].path /\ b.user = call[t].user}
<1>1. \A b \in B : OwnerRecord(t, b) /\ b \in db /\ b \notin del[t]
  BY <1>0 DEF OwnerRecord, FullInv, Committed, Generated
<1>2. CASE call[t].op = "removeOwner" /\ pc[t] = 1
  <2>1. Statement(t) = "deleteGrants"
    BY <1>0, <1>2, StatementAt
  <2>2. Selected(t) = Visible(t) \cap {Grant(b.user, b.policy) : b \in B}
    BY <2>1 DEF Selected
  <2>3. \A b \in B : OwnerGrant(t, Grant(b.user, b.policy))
    BY <1>1 DEF OwnerRecord, OwnerGrant, Grant
  <2> HIDE DEF B
  <2> QED
    BY <1>0, <1>2, <2>2, <2>3
<1>3. CASE call[t].op = "removeOwner" /\ pc[t] = 2
  <2>1. Statement(t) = "deleteBindings"
    BY <1>0, <1>3, StatementAt
  <2>2. Selected(t) = B
    BY <2>1 DEF Selected
  <2>3. \A b \in db : OwnerRecord(t, b) => b \in B \cup del[t]
    BY <1>0 DEF OwnerRecord
  <2> HIDE DEF B
  <2> QED
    BY <1>1, <1>3, <2>2, <2>3
<1>4. CASE Statement(t) = "deletePolicies"
  <2>1. call[t].op = "delete" /\ pc[t] = 1
    BY <1>0, <1>4, StatementAt DEF Deleting
  <2>2. \A x \in Selected(t) :
           \E m \in Visible(t) : /\ m.tab = "generated_policy_metadata"
                                 /\ m.resource.path = call[t].path /\ x = m.policy
    BY <1>4 DEF Selected
  <2>3. ASSUME NEW m \in db, m.tab = "generated_policy_metadata", m.resource.path = call[t].path
        PROVE  /\ m.policy \in db /\ m.policy.tab = "policy"
               /\ m.policy.path = call[t].path
    <3>1. m.policy.path = m.resource.path
      BY <2>3 DEF FullInv, Committed, Generated
    <3>2. m.policy \in PolicyRow /\ m.policy \in Refs(m)
      BY <1>0, <2>3, RowOf
    <3>3. m.policy \in db
      BY <3>2 DEF FullInv, IndInv, Locked, ReferencesHold
    <3> QED
      BY <2>3, <3>1, <3>2, <3>3 DEF PolicyRow
  <2> QED
    BY <1>0, <2>1, <2>2, <2>3
<1>5. CASE Statement(t) = "deleteResource"
  <2>1. call[t].op \in {"delete", "genericDelete"} /\ pc[t] = 2
    BY <1>0, <1>5, StatementAt DEF Deleting
  <2>2. Selected(t) = {x \in Visible(t) : x.tab = "resource" /\ x.path = call[t].path}
    BY <1>5 DEF Selected
  <2>3. \A x \in Selected(t) : x \in db /\ x.tab = "resource"
    BY <1>0, <2>2
  <2> QED
    BY <1>0, <2>1, <2>2, <2>3
<1>6. call[t].op \in {"delete", "genericDelete"} =>
         Statement(t) \in {"deletePolicies", "deleteResource"}
  BY <1>0, StatementAt DEF Deletes
<1> QED
  BY <1>0, <1>2, <1>3, <1>4, <1>5, <1>6 DEF Deleting

LEMMA StartFull ==
    ASSUME FullInv, NEW t \in Tx, Open(t), StartDelete(t), IndInv'
    PROVE  FullInv'
<1>1. /\ Statement(t) \in Deletes /\ phase[t] = "start" /\ todo'[t] = Selected(t)
      /\ phase'[t] = "rows" /\ UNCHANGED <<db, call, pc, ins, del, upd, batch>>
      /\ \A s \in Tx \ {t} : todo'[s] = todo[s]
  BY DEF StartDelete, own, FullInv, IndInv, Control, Typed
<1>2. call[t].op \in Deleting /\ pc[t] \in {1, 2} /\ Elsewhere(t)
  BY <1>1, WhoRuns, DeleteControl DEF FullInv, IndInv
<1>3. Removing(t) /\ Dropping(t) /\ ContainerPending(t) /\ batch[t] = {} /\ todo[t] = {}
      /\ db \subseteq Row
  BY <1>1 DEF FullInv, Erasing, IndInv, Control, Shaped, Typed
<1>4. Removing(t)'
  <2> SUFFICES ASSUME call[t].op = "removeOwner" PROVE Removing(t)'
    BY <1>1 DEF Removing
  <2>1. \A x \in del[t] : OwnerGrant(t, x) \/ (pc[t] # 1 /\ OwnerRecord(t, x))
    BY <1>3 DEF Removing
  <2>2. ASSUME NEW b \in db, b.tab = "ownership_binding_metadata",
               Grant(b.user, b.policy) \in del[t], pc[t] # 1
        PROVE  b \in Selected(t) \cup del[t]
    <3>1. Grant(b.user, b.policy).tab = "usr_policy"
          /\ Grant(b.user, b.policy).user = b.user /\ Grant(b.user, b.policy).policy = b.policy
      BY DEF Grant
    <3>2. OwnerGrant(t, Grant(b.user, b.policy))
      BY <2>1, <2>2, <3>1 DEF OwnerRecord
    <3>3. OwnerRecord(t, b)
      BY <2>2, <3>1, <3>2 DEF OwnerGrant, OwnerRecord, FullInv, Committed, Generated
    <3> QED
      BY <1>1, <1>2, <2>2, <3>3, SelectedFor
  <2>3. /\ \A x \in Selected(t) : IF pc[t] = 1 THEN OwnerGrant(t, x) ELSE OwnerRecord(t, x)
        /\ Selected(t) \cap del[t] = {}
    BY <1>1, <1>2, SelectedFor
  <2> QED
    BY <1>1, <2>1, <2>2, <2>3 DEF Removing, Awaits, OwnerGrant, OwnerRecord
<1>5. Dropping(t)'
  <2> SUFFICES ASSUME call[t].op \in {"delete", "genericDelete"} PROVE Dropping(t)'
    BY <1>1 DEF Dropping
  <2>1. \A x \in Selected(t) :
           /\ x.tab \in {"resource", "policy"}
           /\ x.tab = "policy" => pc[t] = 1 /\ x.path = call[t].path
    BY <1>1, SelectedFor
  <2>2. ASSUME NEW r \in db, r.tab = "resource", r.path = call[t].path, pc[t] # 1
        PROVE  r \in Selected(t) \cup del[t]
    BY <1>1, <1>2, <2>2, SelectedFor
  <2> QED
    BY <1>1, <1>3, <2>1, <2>2 DEF Dropping, Awaits
<1>6. ContainerPending(t)'
  BY <1>1, <1>3 DEF ContainerPending
<1>7. /\ \A s \in Tx \ {t} : (Held(s) \cup del[s]) \cap del'[t] = {}
      /\ del'[t] \cup todo'[t] \subseteq db /\ batch'[t] \subseteq del'[t]
  BY <1>1, SelectedFor DEF FullInv, Holding, HeldKept, DeletedApart, RowsThere
<1> QED
  BY <1>1, <1>2, <1>4, <1>5, <1>6, <1>7, DeletingFull

LEMMA DeleteFull ==
    ASSUME FullInv, NEW t \in Tx, Open(t), DeleteRow(t), IndInv'
    PROVE  FullInv'
<1>0. PICK x \in todo[t] :
         /\ WaitsToDelete(t, x) = {}
         /\ del' = [del EXCEPT ![t] = del[t] \cup {x}]
         /\ todo' = [todo EXCEPT ![t] = todo[t] \ {x}]
         /\ batch' = IF phase[t] = "rows" THEN [batch EXCEPT ![t] = batch[t] \cup {x}] ELSE batch
  BY DEF DeleteRow
<1>1. /\ del'[t] = del[t] \cup {x} /\ todo'[t] = todo[t] \ {x} /\ batch[t] \subseteq batch'[t]
      /\ phase[t] = "rows" => batch'[t] = batch[t] \cup {x}
      /\ batch'[t] \subseteq batch[t] \cup {x}
      /\ phase[t] \in {"rows", "cascade"} /\ UNCHANGED <<db, call, pc, ins, upd, phase>>
      /\ \A s \in Tx \ {t} : todo'[s] = todo[s]
  BY <1>0 DEF DeleteRow, FullInv, IndInv, Control, Typed
<1>2. Statement(t) \in Deletes
  BY <1>1 DEF FullInv, IndInv, Control, Shaped
<1>3. call[t].op \in Deleting /\ pc[t] \in {1, 2} /\ Elsewhere(t)
  BY <1>2, WhoRuns, DeleteControl DEF FullInv, IndInv
<1>4. Removing(t) /\ Dropping(t) /\ ContainerPending(t) /\ x \in Row
  BY DEF FullInv, Erasing, IndInv, Control, Typed
<1>5. Removing(t)'
  <2> SUFFICES ASSUME call[t].op = "removeOwner" PROVE Removing(t)'
    BY <1>1 DEF Removing
  <2>1. IF pc[t] = 1 THEN OwnerGrant(t, x) ELSE OwnerRecord(t, x)
    BY <1>4 DEF Removing
  <2>2. ASSUME NEW b \in db, b.tab = "ownership_binding_metadata",
               Grant(b.user, b.policy) \in del[t] \cup {x}
        PROVE  Awaits(t, b)
    <3>1. Grant(b.user, b.policy) = x => pc[t] = 1
      BY <2>1 DEF Grant, OwnerRecord
    <3> QED
      BY <1>4, <2>2, <3>1 DEF Removing, Awaits
  <2>3. \A b : Awaits(t, b) => Awaits(t, b)'
    BY <1>1 DEF Awaits
  <2>4. \A b \in db : b.tab = "ownership_binding_metadata"
                      /\ Grant(b.user, b.policy) \in del'[t] => Awaits(t, b)'
    BY <1>1, <2>2, <2>3
  <2>5. /\ \A y \in del'[t] : OwnerGrant(t, y)' \/ (pc[t] # 1 /\ OwnerRecord(t, y)')
        /\ \A y \in todo'[t] : IF pc[t] = 1 THEN OwnerGrant(t, y)' ELSE OwnerRecord(t, y)'
        /\ todo'[t] \cap del'[t] = {}
    BY <1>1, <1>4, <2>1 DEF Removing, OwnerGrant, OwnerRecord
  <2> QED
    BY <1>1, <2>4, <2>5 DEF Removing
<1>6. Dropping(t)'
  <2> SUFFICES ASSUME call[t].op \in {"delete", "genericDelete"} PROVE Dropping(t)'
    BY <1>1 DEF Dropping
  <2>1. \A b : Awaits(t, b) => Awaits(t, b)'
    BY <1>1 DEF Awaits
  <2>2. \A y \in del'[t] \cup todo'[t] :
           y.tab \in {"resource", "policy"} \/ Refs(y) \cap del'[t] # {}
    BY <1>1, <1>4 DEF Dropping
  <2>3. ASSUME NEW n \in del'[t] \cup todo'[t], n.tab = "policy"
        PROVE  /\ n.path = call[t].path
               /\ n \in todo'[t] => pc[t] = 1
               /\ n.kind = "admin" /\ n \in del'[t] =>
                     \A r \in db : /\ r.tab = "resource" /\ r.path = n.path
                                   /\ \A p \in Path : Container[p] # r.path
                                   => Awaits(t, r)'
    <3>1. n \in del[t] \cup todo[t]
      BY <1>1
    <3>2. n = x => \A r : Awaits(t, r)
      BY <1>4, <2>3 DEF Dropping, Awaits
    <3> QED
      BY <1>1, <1>4, <2>1, <2>3, <3>1, <3>2 DEF Dropping
  <2> QED
    BY <1>1, <2>2, <2>3 DEF Dropping
<1>7. ContainerPending(t)'
  <2>1. x.tab = "resource" => phase[t] = "rows"
    BY <1>1, <1>4, RowOf DEF FullInv, IndInv, Locked, CascadeIsFlat
  <2>2. ASSUME NEW y \in del'[t], NEW c \in db \ del'[t], y.tab = "resource", c.tab = "resource",
               c.by = y.by, c.path = Container[y.path]
        PROVE  y \in batch'[t] \/ (phase[t] = "rows" /\ c \in todo'[t])
    BY <1>1, <1>4, <2>1, <2>2 DEF ContainerPending
  <2> QED
    BY <1>1, <2>2 DEF ContainerPending
<1>8. /\ \A s \in Tx \ {t} : (Held(s) \cup del[s]) \cap del'[t] = {}
      /\ del'[t] \cup todo'[t] \subseteq db /\ batch'[t] \subseteq del'[t]
  <2>1. x \in db /\ del[t] \cup todo[t] \subseteq db /\ batch[t] \subseteq del[t]
    BY DEF FullInv, Holding, RowsThere
  <2>2. ASSUME NEW s \in Tx \ {t} PROVE x \notin Held(s) \cup del[s]
    <3>1. x \notin ins[s]
      BY <2>1, RowFacts DEF FullInv, IndInv, Locked, InsertedFresh
    <3>2. x \in upd[s] \cup del[s] => s \in Others(t)
      BY Holders DEF FullInv, IndInv, Others
    <3> QED
      BY <1>0, <3>1, <3>2 DEF WaitsToDelete, Held
  <2> QED
    BY <1>1, <2>1, <2>2 DEF FullInv, Holding, HeldKept, DeletedApart
<1> QED
  BY <1>1, <1>3, <1>5, <1>6, <1>7, <1>8, DeletingFull

\* The triggers of RemoveOwner's rows find nothing.
LEMMA RemovalIsFlat ==
    ASSUME FullInv, NEW t \in Tx, Open(t), call[t].op = "removeOwner"
    PROVE  Dependents(t) = {} /\ Children(t) = {}
<1>1. \A x \in batch[t] : x.tab \in {"usr_policy", "ownership_binding_metadata"} /\ x \in Row
  BY DEF FullInv, Erasing, Removing, OwnerGrant, OwnerRecord, Holding, RowsThere,
         IndInv, Control, Typed
<1>2. Visible(t) \subseteq Row
  BY DEF Visible, FullInv, IndInv, Control, Typed
<1>3. ASSUME NEW y \in Visible(t), NEW x \in batch[t] PROVE x \notin Refs(y)
  <2>1. x \notin PolicyRow \cup ResourceRow
    BY <1>1, RowOf
  <2>2. y \in Row
    BY <1>2
  <2> QED
    BY <2>1, <2>2, RowFacts
<1>4. Dependents(t) = {}
  BY <1>3 DEF Dependents
<1>5. Children(t) = {}
  BY <1>1 DEF Children
<1> QED
  BY <1>4, <1>5

LEMMA TriggersFull ==
    ASSUME FullInv, NEW t \in Tx, Open(t), FireTriggers(t), IndInv'
    PROVE  FullInv'
<1>1. /\ todo[t] = {} /\ phase[t] \in {"rows", "cascade"}
      /\ UNCHANGED <<db, call, ins, upd, del>>
      /\ \A s \in Tx \ {t} : todo'[s] = todo[s]
      /\ \/ /\ phase[t] = "rows" /\ phase'[t] = "cascade" /\ todo'[t] = Dependents(t)
            /\ batch'[t] = batch[t] /\ pc'[t] = pc[t]
         \/ /\ phase[t] = "cascade" /\ phase'[t] = "rows" /\ todo'[t] = Children(t)
            /\ batch'[t] = {} /\ pc'[t] = pc[t] /\ Children(t) # {}
         \/ /\ (phase[t] = "rows" /\ batch[t] = {}) \/ (phase[t] = "cascade" /\ Children(t) = {})
            /\ phase'[t] = "start" /\ todo'[t] = {} /\ batch'[t] = {} /\ pc'[t] = pc[t] + 1
  BY DEF FireTriggers, Advance, own, FullInv, IndInv, Control, Typed
<1>2. Statement(t) \in Deletes
  BY <1>1 DEF FullInv, IndInv, Control, Shaped
<1>3. call[t].op \in Deleting /\ pc[t] \in {1, 2} /\ Elsewhere(t)
  BY <1>2, WhoRuns, DeleteControl DEF FullInv, IndInv
<1>4. /\ Removing(t) /\ Dropping(t) /\ ContainerPending(t)
      /\ batch[t] \subseteq del[t] /\ Visible(t) = db \ del[t] /\ db \subseteq Row
  BY <1>3, DeletingHoldsNothing
     DEF FullInv, Erasing, Holding, RowsThere, IndInv, Control, Typed
<1>a. Dependents(t) \subseteq db \ del[t] /\ Children(t) \subseteq db \ del[t]
  BY <1>4 DEF Dependents, Children
\* Nothing that was waited for is forgotten.
<1>5. ASSUME NEW b, Awaits(t, b) PROVE Awaits(t, b)'
  BY <1>1, <1>3, <1>5 DEF Awaits
<1>6. Removing(t)'
  <2> SUFFICES ASSUME call[t].op = "removeOwner" PROVE Removing(t)'
    BY <1>1 DEF Removing
  <2>1. todo'[t] = {} /\ (pc[t] # 1 => pc'[t] # 1)
    BY <1>1, <1>3, RemovalIsFlat
  <2>2. /\ \A x \in del[t] : OwnerGrant(t, x)' \/ (pc'[t] # 1 /\ OwnerRecord(t, x)')
    BY <1>1, <1>4, <2>1 DEF Removing, OwnerGrant, OwnerRecord
  <2>3. \A b \in db : b.tab = "ownership_binding_metadata"
                      /\ Grant(b.user, b.policy) \in del[t] => Awaits(t, b)'
    BY <1>4, <1>5 DEF Removing
  <2> QED
    BY <1>1, <2>1, <2>2, <2>3 DEF Removing
<1>7. Dropping(t)'
  <2> SUFFICES ASSUME call[t].op \in {"delete", "genericDelete"} PROVE Dropping(t)'
    BY <1>1 DEF Dropping
  <2>1. ASSUME NEW y \in todo'[t]
        PROVE  (y.tab = "resource" \/ Refs(y) \cap del[t] # {}) /\ y.tab # "policy"
    <3>1. CASE y \in Dependents(t)
      <4>1. Refs(y) \cap del[t] # {} /\ y \in Row
        BY <1>4, <3>1 DEF Dependents
      <4> QED
        BY <4>1, RowOf
    <3>2. CASE y \in Children(t)
      <4>1. y.tab = "resource" /\ y \in Row
        BY <1>4, <3>2 DEF Children
      <4> QED
        BY <4>1, RowOf
    <3> QED
      BY <1>1, <3>1, <3>2
  <2>2. ASSUME NEW n \in del[t], n.tab = "policy"
        PROVE  /\ n.path = call[t].path
               /\ n.kind = "admin" =>
                     \A r \in db : /\ r.tab = "resource" /\ r.path = n.path
                                   /\ \A p \in Path : Container[p] # r.path
                                   => Awaits(t, r)'
    BY <1>4, <1>5, <2>2 DEF Dropping
  <2>3. \A x \in del[t] : x.tab \in {"resource", "policy"} \/ Refs(x) \cap del[t] # {}
    BY <1>4 DEF Dropping
  <2> QED
    BY <1>1, <2>1, <2>2, <2>3 DEF Dropping
<1>8. ContainerPending(t)'
  <2>1. ASSUME NEW x \in del[t], NEW c \in db \ del[t], x.tab = "resource", c.tab = "resource",
               c.by = x.by, c.path = Container[x.path]
        PROVE  x \in batch[t] /\ c \in Children(t)
    <3>1. x \in batch[t]
      BY <1>1, <1>4, <2>1 DEF ContainerPending
    <3>2. x.path \in Path /\ c.path \in Path
      BY <1>4, <2>1, RowOf DEF FullInv, Holding, RowsThere
    <3>3. c.path \in Below[x.path]
      BY <2>1, <3>2, StatementsAssumption
    <3> QED
      BY <1>4, <2>1, <3>1, <3>3 DEF Children
  <2>2. ASSUME NEW x \in del[t], NEW c \in db \ del[t], x.tab = "resource", c.tab = "resource",
               c.by = x.by, c.path = Container[x.path]
        PROVE  x \in batch'[t] \/ (phase'[t] = "rows" /\ c \in todo'[t])
    BY <1>1, <2>1, <2>2
  <2> QED
    BY <1>1, <2>2 DEF ContainerPending
<1>9. /\ \A s \in Tx \ {t} : (Held(s) \cup del[s]) \cap del'[t] = {}
      /\ del'[t] \cup todo'[t] \subseteq db /\ batch'[t] \subseteq del'[t]
  BY <1>1, <1>4, <1>a DEF FullInv, Holding, HeldKept, DeletedApart, RowsThere
<1> QED
  BY <1>1, <1>3, <1>6, <1>7, <1>8, <1>9, DeletingFull

----------------------------------------------------------------------------
(* Inserts.                                                                *)

\* What a step of a transaction that inserts has to show.
LEMMA InsertingFull ==
    ASSUME FullInv, NEW t \in Tx, Open(t), call[t].op \in Inserting, IndInv', Elsewhere(t),
           UNCHANGED <<db, call, del, statement>>,
           NEW R, Held(t)' \subseteq Held(t) \cup R,
           \A r \in R, s \in Tx \ {t} : r \notin del[s] /\ \A x \in Held(s) : ~ SameKey(r, x),
           upd'[t] \subseteq db \cup ins'[t],
           Working(t)', \A x \in Held(t)' : HoldsFor(t, x)', \A x \in ins'[t] : Recorded(t, x)'
    PROVE  FullInv'
<1>1. /\ del[t] = {} /\ todo[t] = {} /\ batch[t] = {} /\ UNCHANGED <<phase, todo, batch>>
      /\ call[t].op \notin {"removeOwner", "delete", "genericDelete"}
  BY DEF FullInv, IndInv, Control, Shaped, Open, statement, Inserting
<1>2. Committed' /\ \A s \in Tx \ {t} : Orderly(s)'
  BY <1>1, CommittedKept, OthersKept
<1>3. Orderly(t)'
  BY <1>1 DEF Orderly, Removing, Dropping, ContainerPending
<1>4. \A s \in Tx \ {t} : Held(s)' = Held(s)
  BY DEF Elsewhere, Held
<1>5. HeldApart'
  <2>1. ASSUME NEW s \in Tx \ {t}, NEW r \in Held(t)', NEW x \in Held(s) PROVE ~ SameKey(r, x)
    BY DEF FullInv, Holding, HeldApart
  <2> QED
    BY <1>4, <2>1, RowFacts DEF FullInv, Holding, HeldApart
<1>6. HeldKept'
  BY <1>4 DEF FullInv, Holding, HeldKept
<1>7. DeletedApart' /\ RowsThere'
  BY <1>1 DEF Elsewhere, FullInv, Holding, DeletedApart, RowsThere
<1> QED
  BY <1>2, <1>3, <1>5, <1>6, <1>7, FromParts DEF Holding

LEMMA Advanced ==
    ASSUME FullInv, NEW t \in Tx, Open(t), call[t].op \in Inserting, Advance(t), UNCHANGED call
    PROVE  /\ At(t)' = At(t) + 1 /\ pc'[t] = pc[t] + 1 /\ NewRows(t)' = NewRows(t)
           /\ Open(t)' /\ At(t) \in 1 .. 16 /\ pc[t] \in 1 .. 16
<1>1. pc'[t] = pc[t] + 1 /\ pc[t] \in 1 .. 16 /\ At(t) \in 1 .. 16
  BY Position, WhoRuns DEF Advance, FullInv, IndInv, Control, Typed
<1> QED
  BY <1>1 DEF At, NewRows, Open

\* What t holds it goes on to hold.
LEMMA HoldsOn ==
    ASSUME FullInv, NEW t \in Tx, Open(t), call[t].op \in Inserting, Advance(t), UNCHANGED call,
           Held(t) \subseteq Held(t)', ins[t] \subseteq ins'[t], NEW x \in Held(t)
    PROVE  HoldsFor(t, x)'
<1>1. HoldsFor(t, x)
  BY DEF FullInv, Writing
<1>2. /\ At(t)' = At(t) + 1 /\ pc'[t] = pc[t] + 1 /\ NewRows(t)' = NewRows(t)
      /\ At(t) \in Nat /\ pc[t] \in Nat
  BY Advanced
<1> QED
  BY <1>1, <1>2 DEF HoldsFor

LEMMA RecordedOn ==
    ASSUME FullInv, NEW t \in Tx, Held(t) \subseteq Held(t)', ins[t] \subseteq ins'[t], db' = db,
           NEW x \in ins[t]
    PROVE  Recorded(t, x)'
BY DEF FullInv, Writing, Recorded

\* Before the first insert nothing is held.
LEMMA NothingHeld ==
    ASSUME FullInv, NEW t \in Tx, Open(t), call[t].op \in Inserting, At(t) <= 2
    PROVE  Held(t) = {} /\ ins[t] = {} /\ upd[t] = {}
<1>1. ASSUME NEW x \in Held(t) PROVE FALSE
  <2>1. HoldsFor(t, x) /\ x \in Row
    BY DEF FullInv, Writing, Held, IndInv, Control, Typed
  <2>2. At(t) \in Nat /\ (call[t].op = "create" => pc[t] = At(t))
    BY Position DEF FullInv, IndInv
  <2> QED
    BY <2>1, <2>2, RowOf DEF HoldsFor
<1> QED
  BY <1>1 DEF Held

\* A row whose insert waits for nobody is nobody's.
LEMMA NobodyElse ==
    ASSUME FullInv, NEW t \in Tx, NEW r, WaitsToInsert(t, r) = {}, NEW y, SameKey(r, y),
           NEW s \in Tx \ {t}
    PROVE  y \notin del[s] /\ \A x \in Held(s) : ~ SameKey(y, x)
<1>1. ASSUME NEW x \in ins[s] \cup del[s] \cup upd[s] PROVE ~ SameKey(r, x)
  <2>1. s \in Others(t)
    BY Holders DEF FullInv, IndInv, Others
  <2> QED
    BY <2>1 DEF WaitsToInsert
<1> QED
  BY <1>1, SameKeyTransitive DEF Held

LEMMA RolesFull ==
    ASSUME FullInv, NEW t \in Tx, Open(t), EnsureRoles(t), IndInv'
    PROVE  FullInv'
<1>1. call[t].op = "create" /\ pc[t] = 1 /\ call[t].op \in Inserting /\ Elsewhere(t)
  BY WhoRuns, LookupControl DEF FullInv, IndInv, EnsureRoles, Inserting
<1>2. Advance(t) /\ UNCHANGED <<db, call, ins, del, upd, id, statement>>
  BY DEF EnsureRoles, own
<1>3. At(t) = 1 /\ At(t)' = 2
  BY <1>1, <1>2, Advanced DEF At
<1>4. Held(t) = {} /\ ins[t] = {} /\ upd[t] = {} /\ Held(t)' = {}
  BY <1>1, <1>2, <1>3, NothingHeld DEF Held
<1>5. Working(t)'
  BY <1>3 DEF Working
<1> QED
  BY <1>1, <1>2, <1>4, <1>5, InsertingFull

LEMMA ResourceFull ==
    ASSUME FullInv, NEW t \in Tx, Open(t), InsertResource(t), ~ Rollback(t), IndInv'
    PROVE  FullInv'
<1>1. call[t].op = "create" /\ pc[t] = 2 /\ call[t].op \in Inserting /\ Elsewhere(t)
  BY WhoRuns, LookupControl DEF FullInv, IndInv, InsertResource, Inserting
<1>2. /\ Advance(t) /\ UNCHANGED <<db, call, del, upd, statement>> /\ ins'[t] = NewRows(t)
      /\ id'[t].resource = Resource(call[t].path, t)
      /\ \A r \in NewRows(t) : WaitsToInsert(t, r) = {}
  BY DEF InsertResource, FullInv, IndInv, Control, Typed
<1>3. At(t) = 2 /\ At(t)' = 3 /\ pc'[t] = 3 /\ NewRows(t)' = NewRows(t)
  BY <1>1, <1>2, Advanced DEF At
<1>4. Held(t) = {} /\ upd[t] = {} /\ Held(t)' = NewRows(t)
  BY <1>1, <1>2, <1>3, NothingHeld DEF Held
<1>5. Working(t)'
  BY <1>1, <1>2, <1>3 DEF Working, Resource
<1>6. \A x \in NewRows(t) : x.tab = "resource"
  BY DEF NewRows, Resource
<1>7. \A x \in NewRows(t) : HoldsFor(t, x)' /\ Recorded(t, x)'
  BY <1>1, <1>2, <1>3, <1>6 DEF HoldsFor, Recorded
<1>8. \A r \in NewRows(t), s \in Tx \ {t} : r \notin del[s] /\ \A x \in Held(s) : ~ SameKey(r, x)
  BY <1>2, NobodyElse, RowFacts
<1> QED
  BY <1>1, <1>2, <1>4, <1>5, <1>7, <1>8, InsertingFull

LEMMA TargetFull ==
    ASSUME FullInv, NEW t \in Tx, Open(t), ResolveTarget(t), ~ Rollback(t), IndInv'
    PROVE  FullInv'
<1>1. call[t].op = "addOwner" /\ pc[t] = 1 /\ call[t].op \in Inserting /\ Elsewhere(t)
      /\ call[t] \in Request
  BY WhoRuns, LookupControl DEF FullInv, IndInv, ResolveTarget, Inserting
<1>2. PICK r \in Existing(t, Resource(call[t].path, t)) :
         /\ Advance(t) /\ UNCHANGED <<db, call, ins, del, upd, statement>>
         /\ id'[t].resource = r
  BY DEF ResolveTarget, own, FullInv, IndInv, Control, Typed
<1>3. At(t) = 2 /\ At(t)' = 3
  BY <1>1, <1>2, Advanced DEF At
<1>4. Held(t) = {} /\ ins[t] = {} /\ upd[t] = {} /\ Held(t)' = {}
  BY <1>1, <1>2, <1>3, NothingHeld DEF Held
<1>5. r.path = call[t].path /\ Ended(r)
  <2>1. r \in db /\ r \in Row /\ SameKey(Resource(call[t].path, t), r)
    BY <1>4 DEF Existing, Visible, FullInv, IndInv, Control, Typed
  <2>2. r.path = call[t].path /\ r.tab = "resource"
    BY <1>1, <2>1, KeyFacts DEF Request, ResourceRow
  <2> QED
    BY <2>1, <2>2 DEF FullInv, Committed
<1>6. Ended(id[t].resource)'
  BY <1>1, <1>2, <1>5 DEF Ended, Elsewhere, Open
<1>7. Working(t)'
  BY <1>1, <1>2, <1>3, <1>5, <1>6 DEF Working
<1> QED
  BY <1>1, <1>2, <1>4, <1>7, InsertingFull

\* What each upsert offers, and what it finds under that key.
LEMMA OfferedFor ==
    ASSUME FullInv, NEW t \in Tx, Open(t), call[t].op \in Inserting, Statement(t) \in Upserts,
           NEW r \in Offered(t), NEW y \in Row, SameKey(r, y)
    PROVE  /\ At(t) \in 3 .. 15 /\ (At(t) >= 11 => call[t].op = "create") /\ r \in Row
           /\ At(t) = 3 => r = Usr(call[t].user) /\ y = r /\ y.tab = "usr"
           /\ At(t) = 4 => y.tab = "policy" /\ y.path = call[t].path /\ y.kind = "owner" /\ r.by = t
           /\ At(t) = 11 => y.tab = "policy" /\ y.path = call[t].path /\ y.kind = "admin" /\ r.by = t
           /\ At(t) \in {5, 12} => r = Link(id[t].policy, id[t].resource) /\ y = r
           /\ At(t) \in {6, 13} => r = RoleLink(id[t].policy) /\ y = r
           /\ At(t) \in {7, 14} =>
                 /\ r = Metadata(id[t].policy, id[t].resource)
                 /\ y.tab = "generated_policy_metadata" /\ y.policy = id[t].policy
           /\ At(t) = 8 => r = Grant(call[t].user, id[t].policy) /\ y = r
           /\ At(t) = 9 => /\ r = Binding(call[t].user, id[t].policy, id[t].resource)
                           /\ y.tab = "ownership_binding_metadata" /\ y.policy = id[t].policy
           /\ At(t) \in {10, 15} =>
                 /\ y.tab = "policy_resource" /\ y.policy = id[t].policy /\ y = r
                 /\ y.resource \in Visible(t) /\ y.resource.tab = "resource"
                 /\ y.resource.path = Container[call[t].path]
<1>0. /\ Control /\ r \in Row
  BY OfferedRows DEF FullInv, IndInv
<1>1. At(t) \in 3 .. 15 /\ (At(t) >= 11 => call[t].op = "create")
  BY <1>0, WhoRuns DEF At, Inserting
<1>2. CASE At(t) = 4
  <2>1. r = Policy("owner", call[t].path, t)
    BY <1>0, <1>2, Position, OfferedRows
  <2>2. r.tab = "policy" /\ r.path = call[t].path /\ r.kind = "owner" /\ r.by = t
    BY <2>1 DEF Policy
  <2> QED
    BY <1>0, <1>1, <1>2, <2>2, KeysTell
<1>3. CASE At(t) = 11
  <2>1. r = Policy("admin", call[t].path, t)
    BY <1>0, <1>1, <1>3, Position, OfferedRows
  <2>2. r.tab = "policy" /\ r.path = call[t].path /\ r.kind = "admin" /\ r.by = t
    BY <2>1 DEF Policy
  <2> QED
    BY <1>0, <1>1, <1>3, <2>2, KeysTell
<1>4. CASE At(t) \in {5, 12}
  <2>1. Statement(t) \in {"ownerLink", "adminLink"}
    BY <1>0, <1>4, Position
  <2>2. r = Link(id[t].policy, id[t].resource)
    BY <2>1 DEF Offered
  <2>3. r.tab = "policy_resource"
    BY <2>2 DEF Link
  <2> QED
    BY <1>0, <1>1, <1>4, <2>2, <2>3, KeysTell
<1>5. CASE At(t) \in {7, 14}
  <2>1. Statement(t) \in {"ownerMetadata", "adminMetadata"}
    BY <1>0, <1>5, Position
  <2>2. r = Metadata(id[t].policy, id[t].resource)
    BY <2>1 DEF Offered
  <2>3. r.tab = "generated_policy_metadata" /\ r.policy = id[t].policy
    BY <2>2 DEF Metadata
  <2> QED
    BY <1>0, <1>1, <1>5, <2>2, <2>3, KeysTell
<1>6. CASE At(t) = 8
  <2>1. Statement(t) = "grant"
    BY <1>0, <1>6, Position
  <2>2. r = Grant(call[t].user, id[t].policy)
    BY <2>1 DEF Offered
  <2>3. r.tab = "usr_policy"
    BY <2>2 DEF Grant
  <2> QED
    BY <1>0, <1>1, <1>6, <2>2, <2>3, KeysTell
<1>7. CASE At(t) = 9
  <2>1. Statement(t) = "binding"
    BY <1>0, <1>7, Position
  <2>2. r = Binding(call[t].user, id[t].policy, id[t].resource)
    BY <2>1 DEF Offered
  <2>3. r.tab = "ownership_binding_metadata" /\ r.policy = id[t].policy
    BY <2>2 DEF Binding
  <2> QED
    BY <1>0, <1>1, <1>7, <2>2, <2>3, KeysTell
<1>8. CASE At(t) \in {10, 15}
  <2>1. Statement(t) \in {"ownerContainer", "adminContainer"}
    BY <1>0, <1>8, Position
  <2>2. \E c \in Visible(t) : /\ c.tab = "resource" /\ c.path = Container[call[t].path]
                              /\ r = Link(id[t].policy, c)
    BY <2>1 DEF Offered
  <2>3. /\ r.tab = "policy_resource" /\ r.policy = id[t].policy /\ r.resource \in Visible(t)
        /\ r.resource.tab = "resource" /\ r.resource.path = Container[call[t].path]
    BY <2>2 DEF Link
  <2> QED
    BY <1>0, <1>1, <1>8, <2>3, KeysTell
<1>9. CASE At(t) = 3
  <2>1. Statement(t) = "user"
    BY <1>0, <1>9, Position
  <2>2. r = Usr(call[t].user)
    BY <2>1 DEF Offered
  <2>3. r.tab = "usr"
    BY <2>2 DEF Usr
  <2> QED
    BY <1>0, <1>1, <1>9, <2>2, <2>3, KeysTell
<1>10. CASE At(t) \in {6, 13}
  <2>1. Statement(t) \in {"ownerRole", "adminRole"}
    BY <1>0, <1>10, Position
  <2>2. r = RoleLink(id[t].policy)
    BY <2>1 DEF Offered
  <2>3. r.tab = "policy_role"
    BY <2>2 DEF RoleLink
  <2> QED
    BY <1>0, <1>1, <1>10, <2>2, <2>3, KeysTell
<1>11. At(t) \in {3, 4, 5, 6, 7, 8, 9, 10, 11, 12, 13, 14, 15}
  BY <1>1
<1> QED
  BY <1>2, <1>3, <1>4, <1>5, <1>6, <1>7, <1>8, <1>9, <1>10, <1>11

\* The rows that a create works on are its own: nobody else has attached or
\* marked them.
LEMMA OwnResource ==
    ASSUME FullInv, NEW t \in Tx, Open(t), call[t].op = "create", At(t) >= 3
    PROVE  /\ id[t].resource \in ins[t] /\ id[t].resource \in NewRows(t)
           /\ id[t].resource.tab = "resource" /\ id[t].resource.path = call[t].path
           /\ \A c \in db \cup ins[t] : c.tab = "resource" /\ c.path \in WithContainer(call[t].path)
                 => c \in NewRows(t) /\ c \in ins[t] /\ c \notin db
           /\ \A c \in db \cup ins[t] : c.tab = "resource" /\ c.path = call[t].path
                 => c = id[t].resource
           /\ call[t].path \in Path
<1>1. id[t].resource = Resource(call[t].path, t) /\ NewRows(t) \subseteq ins[t]
  BY DEF FullInv, Writing, Working, Inserting
<1>2. /\ id[t].resource \in NewRows(t) /\ id[t].resource.tab = "resource"
      /\ id[t].resource.path = call[t].path
  <2>1. id[t].resource \in NewRows(t)
    BY <1>1 DEF NewRows, WithContainer
  <2>2. id[t].resource.tab = "resource" /\ id[t].resource.path = call[t].path
    BY <1>1 DEF Resource
  <2> QED
    BY <2>1, <2>2
<1>3. call[t].path \in Path
  BY DEF FullInv, IndInv, Control, Shaped, Open, Request
<1>4. ASSUME NEW c \in db \cup ins[t], c.tab = "resource", NEW q \in WithContainer(call[t].path),
             c.path = q
      PROVE  c = Resource(q, t) /\ c \in NewRows(t) /\ c \in ins[t] /\ c \notin db
  <2>1. Resource(q, t) \in NewRows(t) /\ Resource(q, t) \in ins[t]
    BY <1>1 DEF NewRows
  <2>2. Resource(q, t) \in Row /\ c \in Row /\ Resource(q, t).tab = "resource"
        /\ Resource(q, t).path = q
    BY <2>1 DEF Resource, FullInv, IndInv, Control, Typed
  <2>3. SameKey(Resource(q, t), c)
    BY <1>4, <2>2, KeyOf
  <2>4. c \notin db
    BY <2>1, <2>3 DEF FullInv, IndInv, Locked, InsertedFresh
  <2>5. c = Resource(q, t)
    BY <1>4, <2>1, <2>3, <2>4 DEF FullInv, IndInv, Locked, InsertedUnique
  <2> QED
    BY <2>1, <2>4, <2>5
<1>5. call[t].path \in WithContainer(call[t].path)
  BY DEF WithContainer
<1> QED
  BY <1>1, <1>2, <1>3, <1>4, <1>5

\* An upsert that ends with the row y under its key.
LEMMA UpsertStep ==
    ASSUME FullInv, NEW t \in Tx, Open(t), Statement(t) \in Upserts, IndInv', Elsewhere(t),
           UNCHANGED <<db, call, del, statement>>, Advance(t),
           NEW r \in Offered(t), WaitsToInsert(t, r) = {}, NEW y \in Row, SameKey(r, y),
           id' = Returned(t, y),
           \/ ins'[t] = ins[t]
           \/ ins'[t] = ins[t] \cup {y} /\ y = r /\ Refs(r) \subseteq Visible(t),
           y \in db \cup ins'[t], upd[t] \subseteq upd'[t], upd'[t] \subseteq upd[t] \cup {y},
           IF Statement(t) \in Updating THEN y \in Held(t)' ELSE upd'[t] = upd[t]
    PROVE  FullInv'
<1> DEFINE n == id[t].policy
           a == id[t].resource
           k == At(t)
<1>1. call[t].op \in Inserting /\ call[t] \in Request
  BY WhoRuns DEF FullInv, IndInv, Inserting
<1>2. /\ k \in 3 .. 15 /\ At(t)' = k + 1 /\ NewRows(t)' = NewRows(t) /\ Open(t)'
      /\ pc'[t] = pc[t] + 1 /\ pc[t] \in Nat
      /\ (k >= 11 => call[t].op = "create")
  BY <1>1, Advanced, OfferedFor
<1>3. /\ Held(t) \subseteq Held(t)' /\ Held(t)' \subseteq Held(t) \cup {y} /\ ins[t] \subseteq ins'[t]
      /\ ins'[t] \subseteq ins[t] \cup {y} /\ Visible(t) = db \cup ins[t]
  BY <1>1 DEF Held, Visible, FullInv, IndInv, Control, Shaped, Open
<1>4. /\ id'[t].resource = a
      /\ id'[t].policy = IF y.tab = "policy" THEN y ELSE n
  BY DEF Returned, FullInv, IndInv, Control, Typed
<1>5. Working(t)
  BY DEF FullInv, Writing
<1>6. /\ a.path = call[t].path
      /\ call[t].op = "create" => a = Resource(call[t].path, t) /\ NewRows(t) \subseteq ins[t]
      /\ call[t].op # "create" => Ended(a)
      /\ k >= 5 => n \in Held(t) /\ n.path = call[t].path
                   /\ n.kind = IF k >= 12 THEN "admin" ELSE "owner"
      /\ k \in 6 .. 9 => Link(n, a) \in db \cup ins[t] \/ a \notin db \cup ins[t]
      /\ k = 9 => Grant(call[t].user, n) \in Held(t)
      /\ k >= 13 => Link(n, a) \in ins[t]
      /\ k >= 15 => Metadata(n, a) \in ins[t]
  BY <1>1, <1>2, <1>5 DEF Working
<1>7. /\ k = 3 => y = Usr(call[t].user) /\ y.tab = "usr"
      /\ k = 4 => y.tab = "policy" /\ y.path = call[t].path /\ y.kind = "owner" /\ r.by = t
      /\ k = 11 => y.tab = "policy" /\ y.path = call[t].path /\ y.kind = "admin" /\ r.by = t
      /\ k \in {5, 12} => y = Link(n, a) /\ y = r
      /\ k \in {6, 13} => y = RoleLink(n) /\ y = r
      /\ k \in {7, 14} => r = Metadata(n, a)
                          /\ y.tab = "generated_policy_metadata" /\ y.policy = n
      /\ k = 8 => y = Grant(call[t].user, n) /\ y = r
      /\ k = 9 => r = Binding(call[t].user, n, a)
                  /\ y.tab = "ownership_binding_metadata" /\ y.policy = n
      /\ k \in {10, 15} => /\ y.tab = "policy_resource" /\ y.policy = n /\ y = r
                           /\ y.resource \in db \cup ins[t] /\ y.resource.tab = "resource"
                           /\ y.resource.path = Container[call[t].path]
  BY <1>1, <1>3, OfferedFor
<1>8. /\ k \in {5, 12} => y.tab = "policy_resource" /\ y.policy = n /\ y.resource = a
      /\ k \in {6, 13} => y.tab = "policy_role" /\ y.policy = n
      /\ k = 8 => y.tab = "usr_policy" /\ y.policy = n
  BY <1>7 DEF Link, RoleLink, Grant
<1>9. /\ k \notin {4, 11} => y.tab \notin {"policy", "resource"}
      /\ k \notin {3, 4, 11} => y.policy = n
  <2>1. k \in {3, 4, 5, 6, 7, 8, 9, 10, 11, 12, 13, 14, 15}
    BY <1>2
  <2> QED
    BY <2>1, <1>7, <1>8
<1>10. /\ k \in {4, 7, 8, 9, 11, 14} => y \in Held(t)'
       /\ k = 3 => upd'[t] = upd[t]
  BY <1>1, <1>2, Position DEF Updating, FullInv, IndInv
\* The admin policy is attached and marked by this create.
<1>11. k = 12 => y \in ins'[t]
  <2> SUFFICES ASSUME k = 12, y \in db PROVE FALSE
    OBVIOUS
  <2>1. a \in Refs(y) /\ call[t].op = "create"
    BY <1>2, <1>8, RowOf
  <2>2. a \in db /\ a \in ins[t]
    BY <1>2, <2>1, OwnResource DEF FullInv, IndInv, Locked, ReferencesHold
  <2> QED
    BY <2>2, RowFacts DEF FullInv, IndInv, Locked, InsertedFresh
<1>12. k = 14 => y = Metadata(n, a) /\ y \in ins'[t]
  <2> SUFFICES ASSUME k = 14 PROVE y = Metadata(n, a) /\ y \in ins'[t]
    OBVIOUS
  <2>0. call[t].op = "create" /\ y.tab = "generated_policy_metadata" /\ y.policy = n
        /\ n.path = call[t].path
    BY <1>2, <1>6, <1>7
  <2>1. CASE ins'[t] # ins[t]
    BY <1>7, <2>1
  <2>2. CASE ins'[t] = ins[t]
    <3>1. y.policy.path = y.resource.path
      BY <2>0, <2>2 DEF FullInv, Committed, Generated, Writing, Recorded
    <3>2. y.resource \in Refs(y) /\ y.resource.tab = "resource"
      BY <2>0, RowOf DEF ResourceRow
    <3>3. y.resource \in db \cup ins[t] /\ (y \in db => y.resource \in db)
      BY <2>2, <3>2 DEF FullInv, IndInv, Locked, ReferencesHold, InsertedHold
    <3>4. y.resource = a /\ y.resource \notin db
      <4>1. call[t].path \in WithContainer(call[t].path)
        BY DEF WithContainer
      <4> QED
        BY <1>2, <2>0, <3>1, <3>2, <3>3, <4>1, OwnResource
    <3>5. y = Metadata(n, a)
      <4>1. y = [tab |-> "generated_policy_metadata", policy |-> y.policy, resource |-> y.resource]
        BY <2>0 DEF Row, PolicyRow, ResourceRow
      <4> QED
        BY <2>0, <3>4, <4>1 DEF Metadata
    <3> QED
      BY <3>3, <3>4, <3>5
  <2> QED
    BY <2>1, <2>2
<1>13. Working(t)'
  <2> DEFINE m == id'[t].policy
  <2>1. /\ call[t].op = "create" => a = Resource(call[t].path, t) /\ NewRows(t) \subseteq ins'[t]
        /\ call[t].op # "create" => Ended(id[t].resource)'
    BY <1>3, <1>4, <1>6 DEF Ended, Elsewhere, Open
  <2>2. ASSUME k >= 4
        PROVE  /\ m \in Held(t)' /\ m.path = call[t].path
               /\ m.kind = IF k + 1 >= 12 THEN "admin" ELSE "owner"
    <3>1. CASE k = 4
      BY <1>4, <1>7, <1>10, <3>1
    <3>2. CASE k = 11
      BY <1>4, <1>7, <1>10, <3>2
    <3>3. CASE k \notin {4, 11}
      BY <1>2, <1>3, <1>4, <1>6, <1>9, <2>2, <3>3
    <3> QED
      BY <3>1, <3>2, <3>3
  <2>3. ASSUME k + 1 \in 6 .. 9
        PROVE  Link(n, a) \in db \cup ins'[t] \/ a \notin db \cup ins'[t]
    <3>1. CASE k = 5
      BY <1>7, <3>1
    <3>2. CASE k \in 6 .. 8
      <4>1. a \in ResourceRow
        <5>1. (call[t].op = "create" /\ pc[t] >= 3) \/ (call[t].op = "addOwner" /\ pc[t] >= 2)
          BY <1>1, <1>2 DEF At, Inserting
        <5> QED
          BY <5>1 DEF FullInv, IndInv, Control, Resolved, Open
      <4>2. y # a
        BY <1>2, <1>9, <3>2, <4>1 DEF ResourceRow
      <4> QED
        BY <1>3, <1>6, <3>2, <4>2
    <3> QED
      BY <1>2, <2>3, <3>1, <3>2
  <2>4. k + 1 \in 6 .. 9 \/ k + 1 >= 13 => m = n
    BY <1>2, <1>4, <1>9
  <2>5. k + 1 = 9 => Grant(call[t].user, n) \in Held(t)'
    BY <1>2, <1>7, <1>10
  <2>6. /\ k + 1 >= 13 => Link(n, a) \in ins'[t]
        /\ k + 1 >= 15 => Metadata(n, a) \in ins'[t]
    BY <1>2, <1>3, <1>6, <1>7, <1>11, <1>12
  <2>7. a.path = call[t].path /\ id'[t].resource = a /\ At(t)' = k + 1 /\ db' = db
        /\ call'[t] = call[t]
    BY <1>2, <1>4, <1>6
  <2> HIDE DEF m, n, a, k
  <2>8. /\ At(t)' \in 6 .. 9 => Link(m, a) \in db \cup ins'[t] \/ a \notin db \cup ins'[t]
        /\ At(t)' = 9 => Grant(call[t].user, m) \in Held(t)'
        /\ At(t)' >= 13 => Link(m, a) \in ins'[t]
        /\ At(t)' >= 15 => Metadata(m, a) \in ins'[t]
    BY <1>2, <2>3, <2>4, <2>5, <2>6, <2>7
  <2>9. /\ At(t)' >= 5 =>
              /\ m \in Held(t)' /\ m.path = call'[t].path
              /\ m.kind = IF At(t)' >= 12 THEN "admin" ELSE "owner"
        /\ call'[t].op = "create" => a = Resource(call'[t].path, t) /\ NewRows(t)' \subseteq ins'[t]
    BY <1>2, <2>1, <2>2, <2>7
  <2> QED
    BY <2>1, <2>7, <2>8, <2>9 DEF Working, m
<1>14. y \in Held(t)' \ Held(t) => HoldsFor(t, y)'
  <2> SUFFICES ASSUME y \in Held(t)' \ Held(t) PROVE HoldsFor(t, y)'
    OBVIOUS
  <2>1. CASE k \in {4, 11}
    BY <1>1, <1>2, <1>7, <2>1 DEF HoldsFor
  <2>2. CASE k \in {5, 10}
    <3>1. y.tab = "policy_resource" /\ y.policy = n /\ n \in Held(t)' /\ n.kind = "owner"
      BY <1>3, <1>6, <1>7, <1>8, <2>2
    <3> QED
      BY <1>1, <1>2, <2>2, <3>1 DEF HoldsFor
  <2>3. CASE k \in {12, 15}
    <3>1. y.tab = "policy_resource" /\ y.policy = n /\ n \in Held(t)' /\ call[t].op = "create"
      BY <1>2, <1>3, <1>6, <1>7, <1>8, <2>3
    <3>2. y.resource \in NewRows(t)
      <4>1. CASE k = 12
        BY <1>8, <3>1, <4>1, OwnResource
      <4>2. CASE k = 15
        <5>1. y.resource.path \in Path /\ y.resource \in Row
          <6>1. y.resource \in ResourceRow
            BY <3>1, RowOf
          <6> QED
            BY <6>1, RowFacts DEF ResourceRow
        <5>2. y.resource.path \in WithContainer(call[t].path)
          BY <1>7, <4>2, <5>1, StatementsAssumption DEF WithContainer
        <5> QED
          BY <1>7, <3>1, <4>2, <5>2, OwnResource
      <4> QED
        BY <2>3, <4>1, <4>2
    <3> QED
      BY <1>1, <1>2, <2>3, <3>1, <3>2 DEF HoldsFor
  <2>4. CASE k \in {6, 7, 8, 9, 13, 14}
    <3>1. y.policy = n /\ n \in Held(t)'
          /\ (k \in {6, 13} => y.tab = "policy_role")
          /\ (k \in {7, 14} => y.tab = "generated_policy_metadata")
          /\ (k = 8 => y.tab = "usr_policy") /\ (k = 9 => y.tab = "ownership_binding_metadata")
      BY <1>3, <1>6, <1>7, <1>8, <2>4
    <3> QED
      BY <1>1, <1>2, <2>4, <3>1 DEF HoldsFor
  <2>5. CASE k = 3
    BY <1>1, <1>2, <1>7, <1>10, <2>5 DEF HoldsFor, Held
  <2> QED
    BY <1>2, <2>1, <2>2, <2>3, <2>4, <2>5
<1>15. y \in ins'[t] \ ins[t] => Recorded(t, y)'
  <2> SUFFICES ASSUME y \in ins'[t] \ ins[t] PROVE Recorded(t, y)'
    OBVIOUS
  <2>0. y = r /\ Refs(y) \subseteq db \cup ins[t]
    BY <1>3
  <2>1. CASE k \in {4, 11}
    BY <1>7, <2>0, <2>1 DEF Recorded
  <2>2. CASE k \in {7, 14}
    <3>1. y.tab = "generated_policy_metadata" /\ y.policy.path = y.resource.path
      BY <1>6, <1>7, <2>0, <2>2 DEF Metadata
    <3> QED
      BY <3>1 DEF Recorded
  <2>3. CASE k = 9
    <3>1. y.tab = "ownership_binding_metadata" /\ y.policy = n /\ y.resource = a
          /\ y.user = call[t].user
      BY <1>7, <2>0, <2>3 DEF Binding
    <3>2. a \in db \cup ins[t]
      BY <2>0, <3>1, RowOf
    <3>3. Link(n, a) \in db \cup ins[t] /\ Grant(call[t].user, n) \in Held(t)
          /\ n.path = a.path /\ n.kind = "owner"
      BY <1>6, <2>3, <3>2
    <3> QED
      BY <1>3, <3>1, <3>3 DEF Recorded
  <2>4. CASE k \in {3, 5, 6, 8, 10, 12, 13, 15}
    <3>1. y.tab \in {"usr", "policy_role", "policy_resource", "usr_policy"}
      BY <1>7, <1>8, <2>4
    <3> QED
      BY <3>1 DEF Recorded
  <2> QED
    BY <1>2, <2>1, <2>2, <2>3, <2>4
<1>16. \A x \in Held(t)' : HoldsFor(t, x)'
  BY <1>1, <1>3, <1>14, HoldsOn
<1>17. \A x \in ins'[t] : Recorded(t, x)'
  BY <1>3, <1>15, RecordedOn
<1>18. upd'[t] \subseteq db \cup ins'[t]
  BY <1>3 DEF FullInv, Holding, RowsThere
<1>19. \A q \in {y}, s \in Tx \ {t} : q \notin del[s] /\ \A x \in Held(s) : ~ SameKey(q, x)
  BY NobodyElse
<1> QED
  BY <1>1, <1>3, <1>13, <1>16, <1>17, <1>18, <1>19, InsertingFull

LEMMA UpsertFull ==
    ASSUME FullInv, NEW t \in Tx, Open(t), Upsert(t), ~ Rollback(t), IndInv'
    PROVE  FullInv'
<1>1. Statement(t) \in Upserts /\ Elsewhere(t)
  BY UpsertStatements, UpsertControl DEF Upsert, FullInv, IndInv
<1>2. call[t].op \in Inserting /\ del[t] = {} /\ Offered(t) \subseteq Row
      /\ Visible(t) = db \cup ins[t] /\ Visible(t) \subseteq Row
  <2>1. call[t].op \in Inserting
    BY <1>1, WhoRuns DEF FullInv, IndInv, Inserting
  <2> QED
    BY <1>1, <2>1, OfferedRows DEF FullInv, IndInv, Control, Shaped, Open, Visible, Typed
<1>3. ASSUME NEW r \in Offered(t), WaitsToInsert(t, r) = {}, NEW x \in Existing(t, r),
             upd' = IF Statement(t) \in Updating THEN [upd EXCEPT ![t] = @ \cup {x}] ELSE upd,
             id' = Returned(t, x), Advance(t), UNCHANGED <<db, call, ins, del, statement, missed>>
      PROVE  FullInv'
  <2>1. x \in Row /\ SameKey(r, x) /\ x \in db \cup ins'[t]
    BY <1>2, <1>3 DEF Existing
  <2>2. /\ upd[t] \subseteq upd'[t] /\ upd'[t] \subseteq upd[t] \cup {x}
        /\ IF Statement(t) \in Updating THEN x \in Held(t)' ELSE upd'[t] = upd[t]
    BY <1>3 DEF Held, FullInv, IndInv, Control, Typed
  <2>3. UNCHANGED <<db, call, del, statement>> /\ ins'[t] = ins[t]
    BY <1>3
  <2> QED
    BY <1>1, <1>3, <2>1, <2>2, <2>3, UpsertStep
<1>4. ASSUME NEW r \in Offered(t), WaitsToInsert(t, r) = {}, Refs(r) \subseteq Visible(t),
             ins' = [ins EXCEPT ![t] = @ \cup {r}], id' = Returned(t, r), Advance(t),
             UNCHANGED <<db, call, del, upd, statement, missed>>
      PROVE  FullInv'
  <2>1. r \in Row /\ SameKey(r, r) /\ ins'[t] = ins[t] \cup {r} /\ r \in db \cup ins'[t]
    BY <1>2, <1>4, RowFacts DEF FullInv, IndInv, Control, Typed
  <2>2. /\ upd[t] \subseteq upd'[t] /\ upd'[t] \subseteq upd[t] \cup {r}
        /\ IF Statement(t) \in Updating THEN r \in Held(t)' ELSE upd'[t] = upd[t]
    BY <1>4, <2>1 DEF Held
  <2>3. UNCHANGED <<db, call, del, statement>>
    BY <1>4
  <2> QED
    BY <1>1, <1>4, <2>1, <2>2, <2>3, UpsertStep
<1>5. ASSUME Offered(t) = {}, Advance(t), UNCHANGED <<db, call, own, id, statement, missed>>
      PROVE  FullInv'
  \* Only the container's links may find nothing to do.
  <2>1. At(t) \in {10, 15}
    <3>1. Statement(t) \in {"ownerContainer", "adminContainer"}
      BY <1>1, <1>5 DEF Offered, Upserts
    <3> QED
      BY <1>2, <3>1, Position DEF FullInv, IndInv
  <2>2. /\ At(t)' = At(t) + 1 /\ NewRows(t)' = NewRows(t) /\ Open(t)'
        /\ UNCHANGED <<db, call, del, statement, ins, upd, id>> /\ Held(t)' = Held(t)
    BY <1>2, <1>5, Advanced DEF own, Held
  <2>3. Working(t) /\ Ended(id[t].resource) => Ended(id[t].resource)'
    BY <1>1, <2>2 DEF Ended, Elsewhere, Open
  <2>4. Working(t)'
    <3>1. Working(t)
      BY DEF FullInv, Writing
    <3> QED
      BY <1>2, <2>1, <2>2, <2>3, <3>1 DEF Working
  <2>5. /\ \A x \in Held(t)' : HoldsFor(t, x)'
        /\ \A x \in ins'[t] : Recorded(t, x)'
    BY <1>2, <1>5, <2>2, HoldsOn, RecordedOn
  <2>6. Held(t)' \subseteq Held(t) \cup {} /\ upd'[t] \subseteq db \cup ins'[t]
    BY <2>2 DEF FullInv, Holding, RowsThere
  <2> QED
    BY <1>1, <1>2, <2>2, <2>4, <2>5, <2>6, InsertingFull
<1> QED
  BY <1>3, <1>4, <1>5 DEF Upsert

----------------------------------------------------------------------------
(* The theorems.                                                           *)

LEMMA InitFull == Init => FullInv
<1> SUFFICES ASSUME Init PROVE FullInv
  OBVIOUS
<1>1. IndInv
  BY InitInv
<1>2. /\ db \subseteq Row /\ Generated(db) /\ Recoverable(db) /\ OwnersHold(db)
      /\ \A x \in db : x.tab \in {"resource", "policy"} => x.by = "seed"
  BY SeedsAssumption DEF Init
<1>3. Committed
  BY <1>2, StatementsAssumption DEF Committed, Ended
<1>4. Holding
  BY DEF Init, Holding, HeldApart, HeldKept, DeletedApart, RowsThere, Held
<1>5. \A t \in Tx : Working(t)
  BY DEF Init, Working, At
<1>6. Writing
  BY <1>5 DEF Init, Writing, Held
<1>7. Erasing
  BY DEF Init, Erasing, Removing, Dropping, ContainerPending
<1> QED
  BY <1>1, <1>3, <1>4, <1>6, <1>7 DEF FullInv

LEMMA StepFull == FullInv /\ [Next]_vars => FullInv'
<1> SUFFICES ASSUME FullInv, [Next]_vars PROVE FullInv'
  OBVIOUS
<1>1. IndInv'
  BY StepInv DEF FullInv
<1>2. CASE UNCHANGED vars
  <2>1. Holding' /\ Committed'
    BY <1>2 DEF vars, FullInv, Holding, HeldApart, HeldKept, DeletedApart, RowsThere, Held,
                Committed, Generated, Recoverable, OwnersHold, Ended
  <2>2. Writing'
    BY <1>2 DEF vars, FullInv, Writing, Working, HoldsFor, Recorded, Held, At, NewRows, Ended, Open
  <2>3. Erasing'
    BY <1>2 DEF vars, FullInv, Erasing, Removing, Dropping, ContainerPending, OwnerGrant,
                OwnerRecord, Awaits, Open
  <2> QED
    BY <1>1, <2>1, <2>2, <2>3 DEF FullInv
<1>3. ASSUME NEW t \in Tx, Open(t), Step(t) \/ Fail(t) PROVE FullInv'
  <2>1. CASE Rollback(t)
    BY <1>3, <2>1, RollbackFull
  <2>2. CASE EnsureRoles(t)
    BY <1>1, <1>3, <2>2, RolesFull
  <2>3. ASSUME InsertResource(t), ~ Rollback(t) PROVE FullInv'
    BY <1>1, <1>3, <2>3, ResourceFull
  <2>4. ASSUME ResolveTarget(t), ~ Rollback(t) PROVE FullInv'
    BY <1>1, <1>3, <2>4, TargetFull
  <2>5. ASSUME Upsert(t), ~ Rollback(t) PROVE FullInv'
    BY <1>1, <1>3, <2>5, UpsertFull
  <2>6. ASSUME CheckProtection(t), ~ Rollback(t) PROVE FullInv'
    BY <1>1, <1>3, <2>6, ProtectionFull
  <2>7. CASE StartDelete(t)
    BY <1>1, <1>3, <2>7, StartFull
  <2>8. CASE DeleteRow(t)
    BY <1>1, <1>3, <2>8, DeleteFull
  <2>9. CASE FireTriggers(t)
    BY <1>1, <1>3, <2>9, TriggersFull
  <2>10. ASSUME Commit(t), ~ Rollback(t) PROVE FullInv'
    BY <1>3, <2>10, CommitFull DEF Commit, Committing
  <2> QED
    BY <1>3, <2>1, <2>2, <2>3, <2>4, <2>5, <2>6, <2>7, <2>8, <2>9, <2>10 DEF Step, Fail, Victim
<1> QED
  BY <1>2, <1>3 DEF Next

\* The invariant of all transactions.
THEOREM Invariance == Spec => []FullInv
BY InitFull, StepFull, PTL DEF Spec

\* A recorded owner holds the owner policy, and it is attached: no order of
\* the statements of AddOwner, RemoveOwner and the deletes leaves a record
\* without them.
THEOREM OwnersTheorem == Spec => []RecordedOwnersHoldGrants
<1>1. FullInv => RecordedOwnersHoldGrants
  BY DEF FullInv, Committed, RecordedOwnersHoldGrants
<1> QED
  BY <1>1, Invariance, PTL

----------------------------------------------------------------------------
(* Roles: every policy has one, and creates pass ensureRole one by one.    *)

\* What a policy is attached to by the transaction that inserts it.
Linking(t) ==
    \A n \in ins[t] : n.tab = "policy" =>
        /\ At(t) >= (IF n.kind = "admin" THEN 14 ELSE 7) => RoleLink(n) \in ins[t]
        /\ n.kind = "owner" /\ At(t) >= 6 => Link(n, id[t].resource) \in ins[t]

CreatesAlone == \A s, t \in Tx : s # t /\ HoldsRole(s) => ~ HoldsRole(t)

RolesInv == FullInv /\ RolesLinked(db) /\ CreatesAlone /\ \A t \in Tx : Linking(t)

\* The policy that t has inserted is the one it works on.
LEMMA OwnPolicy ==
    ASSUME FullInv, NEW t \in Tx, NEW n \in ins[t], n.tab = "policy"
    PROVE  /\ Open(t) /\ call[t].op \in Inserting /\ n \in Row /\ n \notin db
           /\ At(t) >= (IF n.kind = "admin" THEN 12 ELSE 5) /\ n.kind \in {"owner", "admin"}
           /\ At(t) \in 1 .. 16
           /\ n.kind = (IF At(t) >= 12 THEN "admin" ELSE "owner") => n = id[t].policy
<1>1. Open(t) /\ n \in Row /\ n \in Held(t)
  BY Holders DEF FullInv, IndInv, Control, Typed, Held
<1>2. /\ call[t].op \in Inserting /\ n.path = call[t].path
      /\ At(t) >= (IF n.kind = "admin" THEN 12 ELSE 5)
  BY <1>1 DEF FullInv, Writing, HoldsFor
<1>3. At(t) \in 1 .. 16 /\ n.kind \in {"owner", "admin"}
  BY <1>1, <1>2, Position, RowOf DEF FullInv, IndInv
<1>4. n \notin db
  BY RowFacts DEF FullInv, IndInv, Locked, InsertedFresh
<1>5. ASSUME n.kind = IF At(t) >= 12 THEN "admin" ELSE "owner"
      PROVE  n = id[t].policy
  <2>1. At(t) >= 5
    BY <1>2, <1>3
  <2>2. /\ id[t].policy \in Held(t) /\ id[t].policy.path = call[t].path
        /\ id[t].policy.kind = IF At(t) >= 12 THEN "admin" ELSE "owner"
    BY <1>1, <1>2, <2>1 DEF FullInv, Writing, Working
  <2>3. id[t].policy \in PolicyRow
    <3>1. (call[t].op = "create" /\ pc[t] >= 5) \/ (call[t].op = "addOwner" /\ pc[t] >= 4)
      BY <1>1, <1>2, <2>1, Position, WhoRuns DEF FullInv, IndInv, Inserting, At
    <3> QED
      BY <1>1, <3>1 DEF FullInv, IndInv, Control, Resolved, Open
  <2>4. SameKey(n, id[t].policy)
    BY <1>1, <1>2, <1>5, <2>2, <2>3, KeyOf, RowFacts DEF PolicyRow
  <2> QED
    BY <1>1, <2>2, <2>4, HeldUnique
<1> QED
  BY <1>1, <1>2, <1>3, <1>4, <1>5

\* A row of a policy that has not been committed has not been committed.
LEMMA NewsOnly ==
    ASSUME FullInv, NEW y \in db, y.tab \notin {"resource", "policy", "usr"}
    PROVE  y.policy \in db
<1>1. y \in Row /\ y.policy \in Refs(y)
  BY RowOf DEF FullInv, IndInv, Control, Typed
<1> QED
  BY <1>1 DEF FullInv, IndInv, Locked, ReferencesHold

LEMMA UpsertLinking ==
    ASSUME FullInv, NEW t \in Tx, Open(t), Upsert(t), ~ Rollback(t), Linking(t)
    PROVE  Linking(t)'
<1>1. Statement(t) \in Upserts
  BY UpsertStatements DEF Upsert
<1>2. call[t].op \in Inserting /\ Offered(t) \subseteq Row /\ Visible(t) \subseteq Row
      /\ Visible(t) = db \cup ins[t]
  <2>1. call[t].op \in Inserting
    BY <1>1, WhoRuns DEF FullInv, IndInv, Inserting
  <2> QED
    BY <1>1, <2>1, OfferedRows DEF FullInv, IndInv, Control, Shaped, Open, Visible, Typed
<1>3. Advance(t) /\ UNCHANGED <<db, call>>
  BY DEF Upsert
<1>4. At(t)' = At(t) + 1 /\ At(t) \in 1 .. 16
  BY <1>2, <1>3, Advanced
<1>5. ASSUME NEW r \in Offered(t), NEW y \in Row, SameKey(r, y), y \in db \cup ins'[t],
             ins[t] \subseteq ins'[t], ins'[t] \subseteq ins[t] \cup {y}, id' = Returned(t, y)
      PROVE  Linking(t)'
  <2> SUFFICES ASSUME NEW n \in ins'[t], n.tab = "policy"
               PROVE  /\ At(t)' >= (IF n.kind = "admin" THEN 14 ELSE 7) => RoleLink(n) \in ins'[t]
                      /\ n.kind = "owner" /\ At(t)' >= 6 => Link(n, id'[t].resource) \in ins'[t]
    BY DEF Linking
  <2>1. id'[t].resource = id[t].resource
    BY <1>5 DEF Returned, FullInv, IndInv, Control, Typed
  <2>2. CASE n \notin ins[t]
    <3>1. n = y
      BY <1>5, <2>2
    <3>2. At(t) \in {3, 4, 5, 6, 7, 8, 9, 10, 11, 12, 13, 14, 15}
      BY <1>1, <1>2, <1>5, OfferedFor
    <3>3. (At(t) = 4 /\ n.kind = "owner") \/ (At(t) = 11 /\ n.kind = "admin")
      BY <1>1, <1>2, <1>5, <3>1, <3>2, OfferedFor DEF Link, RoleLink, Grant
    <3> QED
      BY <1>4, <3>3
  <2>3. CASE n \in ins[t]
    <3>1. /\ n \notin db /\ n.kind \in {"owner", "admin"}
          /\ n.kind = (IF At(t) >= 12 THEN "admin" ELSE "owner") => n = id[t].policy
          /\ At(t) >= (IF n.kind = "admin" THEN 12 ELSE 5)
      BY <2>3, OwnPolicy
    <3>2. /\ At(t) >= (IF n.kind = "admin" THEN 14 ELSE 7) => RoleLink(n) \in ins'[t]
          /\ n.kind = "owner" /\ At(t) >= 6 => Link(n, id[t].resource) \in ins'[t]
      BY <1>5, <2>3 DEF Linking
    \* The role is attached now.
    <3>3. ASSUME At(t) = IF n.kind = "admin" THEN 13 ELSE 6 PROVE RoleLink(n) \in ins'[t]
      <4>1. n = id[t].policy
        BY <3>1, <3>3
      <4>2. y = RoleLink(n)
        BY <1>1, <1>2, <1>5, <3>3, <4>1, OfferedFor
      <4>3. y.tab = "policy_role" /\ y.policy = n
        BY <4>2 DEF RoleLink
      <4> QED
        BY <1>5, <3>1, <4>2, <4>3, NewsOnly
    \* The resource is attached now.
    <3>4. ASSUME n.kind = "owner", At(t) = 5 PROVE Link(n, id[t].resource) \in ins'[t]
      <4>1. n = id[t].policy
        BY <3>1, <3>4
      <4>2. y = Link(n, id[t].resource)
        BY <1>1, <1>2, <1>5, <3>4, <4>1, OfferedFor
      <4>3. y.tab = "policy_resource" /\ y.policy = n
        BY <4>2 DEF Link
      <4> QED
        BY <1>5, <3>1, <4>2, <4>3, NewsOnly
    <3>5. At(t)' >= (IF n.kind = "admin" THEN 14 ELSE 7) => RoleLink(n) \in ins'[t]
      BY <1>4, <3>2, <3>3
    <3>6. n.kind = "owner" /\ At(t)' >= 6 => Link(n, id[t].resource) \in ins'[t]
      BY <1>4, <3>2, <3>4
    <3> QED
      BY <2>1, <3>5, <3>6
  <2> QED
    BY <2>2, <2>3
<1>6. ASSUME NEW r \in Offered(t), NEW x \in Existing(t, r), id' = Returned(t, x), ins' = ins
      PROVE  Linking(t)'
  BY <1>2, <1>5, <1>6 DEF Existing
<1>7. ASSUME NEW r \in Offered(t), ins' = [ins EXCEPT ![t] = @ \cup {r}], id' = Returned(t, r)
      PROVE  Linking(t)'
  <2>1. ins'[t] = ins[t] \cup {r}
    BY <1>7 DEF FullInv, IndInv, Control, Typed
  <2> QED
    BY <1>2, <1>5, <1>7, <2>1, RowFacts
<1>8. ASSUME Offered(t) = {}, UNCHANGED <<ins, id>> PROVE Linking(t)'
  <2>1. At(t) \in {10, 15}
    <3>1. Statement(t) \in {"ownerContainer", "adminContainer"}
      BY <1>1, <1>8 DEF Offered, Upserts
    <3> QED
      BY <1>2, <3>1, Position DEF FullInv, IndInv
  <2>2. \A n \in ins[t] : n.tab = "policy" =>
           n.kind \in {"owner", "admin"} /\ At(t) >= (IF n.kind = "admin" THEN 12 ELSE 5)
    BY OwnPolicy
  <2> QED
    BY <1>4, <1>8, <2>1, <2>2 DEF Linking
<1> QED
  BY <1>6, <1>7, <1>8 DEF Upsert, own

\* What is committed has its role.
LEMMA CommitRoles ==
    ASSUME RolesInv, NEW t \in Tx, Open(t), Committing(t)
    PROVE  RolesLinked(db')
<1> SUFFICES ASSUME NEW n \in db', n.tab = "policy" PROVE RoleLink(n) \in db'
  BY DEF RolesLinked
<1>0. db' = (db \ del[t]) \cup ins[t] /\ Statement(t) = "commit" /\ FullInv
  BY CommitFacts DEF Committing, RolesInv
<1>1. CASE n \in db \ del[t]
  <2>1. RoleLink(n) \in db /\ RoleLink(n).tab = "policy_role" /\ RoleLink(n).policy = n
    BY <1>1 DEF RolesInv, RolesLinked, RoleLink
  <2>2. RoleLink(n) \in Row
    BY <1>0, <2>1 DEF FullInv, IndInv, Control, Typed
  <2>3. Refs(RoleLink(n)) = {n}
    BY <2>1, <2>2, RowOf
  <2>4. RoleLink(n) \notin del[t]
    BY <1>0, <1>1, <2>1, <2>3, DeletedFor
  <2> QED
    BY <1>0, <2>1, <2>4
<1>2. CASE n \in ins[t]
  <2>1. /\ call[t].op \in Inserting /\ n.kind \in {"owner", "admin"}
        /\ At(t) >= (IF n.kind = "admin" THEN 12 ELSE 5) /\ At(t) \in 1 .. 16
    BY <1>0, <1>2, OwnPolicy
  <2>2. At(t) = IF call[t].op = "create" THEN 16 ELSE 11
    BY <1>0, <2>1, Position DEF FullInv, IndInv
  <2>3. RoleLink(n) \in ins[t]
    BY <1>2, <2>1, <2>2 DEF RolesInv, Linking
  <2> QED
    BY <1>0, <2>3
<1> QED
  BY <1>0, <1>1, <1>2

\* A create gets past the roles when no other has.
LEMMA OnePastRoles ==
    ASSUME FullInv, NEW t \in Tx, Open(t), Step(t) \/ Fail(t), HoldsRole(t)', ~ HoldsRole(t)
    PROVE  \A s \in Tx \ {t} : ~ HoldsRole(s)
<1>0. Control /\ pc[t] \in 1 .. 16 /\ pc'[t] # 0
  BY WhoRuns DEF FullInv, IndInv, HoldsRole
<1>1. ASSUME End(t) PROVE FALSE
  BY <1>0, <1>1 DEF End, Control, Typed
<1>2. ~ Rollback(t) /\ ~ Commit(t)
  BY <1>1 DEF Commit, Rollback
<1>3. call'[t] = call[t]
  BY <1>2 DEF Step, Fail, Victim, EnsureRoles, InsertResource, ResolveTarget, Upsert,
              CheckProtection, StartDelete, DeleteRow, FireTriggers
<1>4. call[t].op = "create" /\ pc[t] = 1
  BY <1>0, <1>3 DEF HoldsRole
<1>5. Statement(t) = "roles"
  BY <1>0, <1>4, StatementAt, WhoRuns
<1>6. EnsureRoles(t)
  <2>1. ~ Upsert(t)
    BY <1>5, UpsertStatements DEF Upsert, Upserts
  <2>2. phase[t] = "start"
    BY <1>0, <1>5 DEF Control, Shaped, Deletes
  <2> QED
    BY <1>2, <1>5, <2>1, <2>2
       DEF Step, Fail, Victim, InsertResource, ResolveTarget, CheckProtection, StartDelete,
           DeleteRow, FireTriggers, Deletes
<1>7. ASSUME NEW s \in Tx \ {t}, HoldsRole(s) PROVE s \in WaitsForRoles(t)
  BY <1>0, <1>7 DEF WaitsForRoles, Others, Open, HoldsRole, Control, Typed
<1> QED
  BY <1>6, <1>7 DEF EnsureRoles

LEMMA InitRoles == Init => RolesInv
<1> SUFFICES ASSUME Init PROVE RolesInv
  OBVIOUS
<1>1. RolesLinked(db)
  BY SeedsAssumption DEF Init
<1>2. CreatesAlone /\ \A t \in Tx : Linking(t)
  BY DEF Init, CreatesAlone, HoldsRole, Linking
<1> QED
  BY <1>1, <1>2, InitFull DEF RolesInv

LEMMA StepRoles == RolesInv /\ [Next]_vars => RolesInv'
<1> SUFFICES ASSUME RolesInv, [Next]_vars PROVE RolesInv'
  OBVIOUS
<1>1. FullInv' /\ FullInv /\ Control
  BY StepFull DEF RolesInv, FullInv, IndInv
<1>2. CASE UNCHANGED vars
  BY <1>1, <1>2 DEF vars, RolesInv, RolesLinked, CreatesAlone, HoldsRole, Linking, At
<1>3. ASSUME NEW t \in Tx, Open(t), Step(t) \/ Fail(t) PROVE RolesInv'
  <2>1. ASSUME Elsewhere(t), RolesLinked(db'), Linking(t)' PROVE RolesInv'
    <3>1. \A s \in Tx \ {t} : Linking(s)' /\ (HoldsRole(s)' <=> HoldsRole(s))
      BY <2>1 DEF RolesInv, Elsewhere, Linking, At, HoldsRole
    <3>2. HoldsRole(t)' => \A s \in Tx \ {t} : ~ HoldsRole(s)
      BY <1>1, <1>3, OnePastRoles DEF RolesInv, CreatesAlone
    <3>3. CreatesAlone'
      BY <3>1, <3>2 DEF RolesInv, CreatesAlone
    <3> QED
      BY <1>1, <2>1, <3>1, <3>3 DEF RolesInv, RolesLinked
  <2>2. ASSUME End(t), Elsewhere(t), RolesLinked(db') PROVE RolesInv'
    <3>1. ins'[t] = {}
      BY <1>1, <2>2 DEF End, Control, Typed
    <3> QED
      BY <2>1, <2>2, <3>1 DEF Linking
  <2>3. CASE Rollback(t)
    <3>1. RolesLinked(db') /\ End(t) /\ Elsewhere(t)
      BY <1>1, <2>3, RollbackControl DEF Rollback, RolesInv
    <3> QED
      BY <2>2, <3>1
  <2>4. ASSUME Commit(t), ~ Rollback(t) PROVE RolesInv'
    <3>1. Committing(t)
      BY <2>4 DEF Commit, Committing
    <3>2. Elsewhere(t) /\ RolesLinked(db') /\ End(t)
      BY <1>1, <1>3, <3>1, CommitFacts, CommitRoles DEF Committing
    <3> QED
      BY <2>2, <3>2
  \* Lookups and deletes insert no policy.
  <2>5. ASSUME Elsewhere(t), db' = db, \A n \in ins'[t] : n.tab # "policy" PROVE RolesInv'
    BY <2>1, <2>5 DEF RolesInv, Linking
  <2>6. ASSUME EnsureRoles(t) \/ InsertResource(t) \/ ResolveTarget(t), ~ Rollback(t)
        PROVE  RolesInv'
    <3>1. Elsewhere(t) /\ db' = db /\ call[t].op \in Inserting /\ At(t) <= 2
      BY <1>1, <1>3, <2>6, LookupControl, WhoRuns
         DEF EnsureRoles, InsertResource, ResolveTarget, Inserting, At
    <3>2. ins[t] = {}
      BY <1>1, <1>3, <3>1, NothingHeld
    <3>3. ins'[t] \subseteq NewRows(t)
      BY <1>1, <2>6, <3>2 DEF EnsureRoles, InsertResource, ResolveTarget, own, Control, Typed
    <3> QED
      BY <2>5, <3>1, <3>3 DEF NewRows, Resource
  <2>7. ASSUME Upsert(t), ~ Rollback(t) PROVE RolesInv'
    <3>1. Elsewhere(t) /\ db' = db /\ Linking(t)'
      BY <1>1, <1>3, <2>7, UpsertControl, UpsertLinking DEF Upsert, RolesInv
    <3> QED
      BY <2>1, <3>1 DEF RolesInv
  <2>8. ASSUME CheckProtection(t) \/ StartDelete(t) \/ DeleteRow(t) \/ FireTriggers(t),
               ~ Rollback(t)
        PROVE  RolesInv'
    <3>1. Elsewhere(t) /\ db' = db /\ ins' = ins
      BY <1>1, <1>3, <2>8, DeleteControl
         DEF CheckProtection, StartDelete, DeleteRow, FireTriggers, own
    <3>2. Statement(t) \in Deletes \cup {"protection"}
      BY <1>1, <2>8 DEF CheckProtection, StartDelete, DeleteRow, FireTriggers, Control, Shaped
    <3>3. call[t].op \in Deleting
      BY <1>1, <1>3, <3>2, WhoRuns DEF Deleting
    <3> QED
      BY <1>1, <1>3, <2>5, <3>1, <3>3, DeletingHoldsNothing
  <2> QED
    BY <1>3, <2>3, <2>4, <2>6, <2>7, <2>8 DEF Step, Fail, Victim
<1> QED
  BY <1>2, <1>3 DEF Next

LEMMA RolesInvariance == Spec => []RolesInv
BY InitRoles, StepRoles, PTL DEF Spec

\* A committed resource has its admin policy, attached and marked, and policies
\* have their role, whatever runs beside the create that made them and the
\* deletes that take them away.
THEOREM RecoveryTheorem == Spec => []RecoveryComplete
<1>1. RolesInv => RecoveryComplete
  BY DEF RolesInv, FullInv, Committed, RecoveryComplete
<1> QED
  BY <1>1, RolesInvariance, PTL

----------------------------------------------------------------------------
(* Deadlocks.                                                              *)

\* Transactions that wait for each other, none of which deletes a resource.
Stuck(S) ==
    /\ S \in SUBSET Tx /\ Deadlocked(S)
    /\ \A t \in S : call[t].op \in {"create", "addOwner", "removeOwner"}

\* What one of them has deleted is a grant or a record, and then it waits for
\* nothing of that kind: a user has one grant and one record for a path.
LEMMA StuckRemovals ==
    ASSUME FullInv, NEW S, Stuck(S), NEW s \in S, NEW x \in del[s]
    PROVE  /\ x.tab \in {"usr_policy", "ownership_binding_metadata"} /\ x \in Row
           /\ call[s].op = "removeOwner" /\ pc[s] = 2 /\ x.tab = "usr_policy"
<1>0. s \in Tx /\ Open(s) /\ call[s].op \in {"create", "addOwner", "removeOwner"}
      /\ Waits(s) \cap S # {} /\ Control
  BY DEF Stuck, Deadlocked, FullInv, IndInv
<1>1. call[s].op = "removeOwner"
  BY <1>0 DEF Control, Shaped, Open, Inserting
<1>2. /\ OwnerGrant(s, x) \/ (pc[s] # 1 /\ OwnerRecord(s, x))
      /\ \A y \in todo[s] : IF pc[s] = 1 THEN OwnerGrant(s, y) ELSE OwnerRecord(s, y)
      /\ todo[s] \cap del[s] = {} /\ x \in db /\ todo[s] \subseteq db /\ db \subseteq Row
  BY <1>0, <1>1 DEF FullInv, Erasing, Removing, Holding, RowsThere, IndInv, Control, Typed
<1>3. pc[s] \in {1, 2} /\ Statement(s) \in Deletes
  <2>1. call[s] \in Request /\ pc[s] \in 1 .. 16 /\ pc[s] <= 3
    BY <1>0, <1>1, WhoRuns DEF Control, Shaped, Open, Deleting
  <2>2. pc[s] # 3
    <3> SUFFICES ASSUME pc[s] = 3 PROVE FALSE
      OBVIOUS
    <3>1. Statement(s) = "commit"
      BY <1>0, <1>1, <2>1, StatementAt
    <3>2. Waits(s) = {}
      BY <3>1 DEF Waits, Offered, Deletes
    <3> QED
      BY <1>0, <3>2
  <2>3. pc[s] \in {1, 2}
    BY <2>1, <2>2
  <2> QED
    BY <1>0, <1>1, <2>1, <2>3, StatementAt DEF Deletes
<1>4. PICK y \in todo[s] : TRUE
  <2>1. Waits(s) = UNION {WaitsToDelete(s, y) : y \in todo[s]}
    BY <1>3 DEF Waits, Deletes
  <2> QED
    BY <1>0, <2>1
\* Two rows of one kind would have one key.
<1>5. ASSUME x.tab = y.tab PROVE FALSE
  <2>1. /\ x.policy.path = call[s].path /\ x.policy.kind = "owner" /\ x.user = call[s].user
        /\ y.policy.path = call[s].path /\ y.policy.kind = "owner" /\ y.user = call[s].user
        /\ x.tab \in {"usr_policy", "ownership_binding_metadata"}
    BY <1>2 DEF OwnerGrant, OwnerRecord
  <2>2. x.policy \in PolicyRow /\ y.policy \in PolicyRow /\ x.policy \in db /\ y.policy \in db
    BY <1>2, <1>5, <2>1, RowOf DEF FullInv, IndInv, Locked, ReferencesHold
  <2>3. SameKey(x.policy, y.policy)
    BY <1>2, <2>1, <2>2, KeyOf DEF PolicyRow
  <2>4. x.policy = y.policy
    BY <2>2, <2>3 DEF FullInv, IndInv, Locked, KeysUnique
  <2>5. SameKey(x, y)
    BY <1>5, <2>1, <2>4 DEF SameKey, Key
  <2>6. x = y
    BY <1>2, <2>5 DEF FullInv, IndInv, Locked, KeysUnique
  <2> QED
    BY <1>2, <2>6
<1> QED
  BY <1>1, <1>2, <1>3, <1>5 DEF OwnerGrant, OwnerRecord

\* One that waits to insert waits for a row with the key, or for the role.
LEMMA StuckInserts ==
    ASSUME FullInv, NEW S, Stuck(S), NEW t \in S, NEW s \in S, NEW r \in Row,
           s \in WaitsToInsert(t, r)
    PROVE  /\ s # t
           /\ \/ \E x \in Row : x \in Held(s) \cup del[s] /\ SameKey(r, x)
              \/ Existing(t, r) = {} /\ HoldsRole(s) /\ r.tab = "policy_role"
                 /\ r.policy.kind = "owner"
<1>1. s # t /\ s \in Tx
  BY DEF WaitsToInsert, Others
<1>2. ASSUME NEW x \in Refs(r), x \in del[s] PROVE FALSE
  <2>1. x.tab \in {"policy", "resource"}
    BY RowFacts DEF PolicyRow, ResourceRow
  <2> QED
    BY <1>2, <2>1, StuckRemovals
<1>3. \/ \E x \in ins[s] \cup del[s] \cup upd[s] : SameKey(r, x)
      \/ Existing(t, r) = {} /\ HoldsRole(s) /\ r.tab = "policy_role" /\ r.policy.kind = "owner"
  BY <1>2 DEF WaitsToInsert
<1> QED
  BY <1>1, <1>3 DEF Held, FullInv, IndInv, Control, Typed

\* The upserts: behind the policy its row is locked, which leaves the removals
\* and the role.
LEMMA StuckUpserts ==
    ASSUME FullInv, NEW S, Stuck(S), NEW t \in S, call[t].op \in Inserting,
           Statement(t) \in Upserts
    PROVE  \/ At(t) = 3 /\ \E s \in S : s # t /\ Usr(call[t].user) \in Held(s)
           \/ At(t) = 4 /\ \E s \in S : \E x \in Held(s) :
                 s # t /\ x.tab = "policy" /\ x.kind = "owner" /\ x.path = call[t].path
           \/ At(t) = 6 /\ Existing(t, RoleLink(id[t].policy)) = {}
              /\ \E s \in S : s # t /\ HoldsRole(s)
           \/ At(t) = 8 /\ \E s \in S : del[s] # {}
           \/ At(t) = 11 /\ \E s \in S : \E x \in Held(s) :
                 s # t /\ x.tab = "policy" /\ x.kind = "admin"
<1>0. t \in Tx /\ Open(t) /\ Waits(t) \cap S # {}
  BY DEF Stuck, Deadlocked
<1>1. Waits(t) = UNION {WaitsToInsert(t, r) : r \in Offered(t)}
  BY DEF Waits, Upserts, Deletes
<1>2. PICK r \in Offered(t), s \in S : s \in WaitsToInsert(t, r)
  BY <1>0, <1>1
<1>3. r \in Row /\ s # t /\ s \in Tx
  BY <1>0, <1>2, OfferedRows DEF FullInv, IndInv, WaitsToInsert, Others
<1>4. At(t) \in {3, 4, 5, 6, 7, 8, 9, 10, 11, 12, 13, 14, 15}
  BY <1>0, <1>3, RowFacts, OfferedFor
<1>5. At(t) >= 5 => id[t].policy \in Held(t)
                    /\ id[t].policy.kind = IF At(t) >= 12 THEN "admin" ELSE "owner"
  BY <1>0, <1>4 DEF FullInv, Writing, Working
<1>6. CASE \E x \in Row : x \in Held(s) \cup del[s] /\ SameKey(r, x)
  <2>0. PICK x \in Row : x \in Held(s) \cup del[s] /\ SameKey(r, x)
    BY <1>6
  <2>1. CASE At(t) = 3
    <3>1. x = Usr(call[t].user) /\ x.tab = "usr"
      BY <1>0, <2>0, <2>1, OfferedFor
    <3>2. x \notin del[s]
      BY <3>1, StuckRemovals
    <3> QED
      BY <1>3, <2>0, <2>1, <3>1, <3>2
  <2>2. CASE At(t) \in {4, 11}
    <3>1. /\ x.tab = "policy" /\ x.kind = IF At(t) = 4 THEN "owner" ELSE "admin"
          /\ x.path = call[t].path
      BY <1>0, <2>0, <2>2, OfferedFor
    <3>2. x \notin del[s]
      BY <3>1, StuckRemovals
    <3> QED
      BY <1>3, <2>0, <2>2, <3>1, <3>2
  <2>3. CASE At(t) \notin {3, 4, 11}
    <3>1. /\ x.policy = id[t].policy /\ x.tab \notin {"policy", "resource", "usr"}
          /\ At(t) # 8 => x.tab # "usr_policy"
      <4>1. CASE At(t) \in {5, 6, 12, 13}
        BY <1>0, <2>0, <4>1, OfferedFor DEF Link, RoleLink
      <4>2. CASE At(t) \in {7, 9, 10, 14, 15}
        BY <1>0, <2>0, <4>2, OfferedFor
      <4>3. CASE At(t) = 8
        BY <1>0, <2>0, <4>3, OfferedFor DEF Grant
      <4> QED
        BY <1>4, <2>3, <4>1, <4>2, <4>3
    <3>2. x \notin Held(s)
      <4> SUFFICES ASSUME x \in Held(s) PROVE FALSE
        OBVIOUS
      <4>1. x.policy \in Held(s)
        BY <1>3, <3>1 DEF FullInv, Writing, HoldsFor
      <4> QED
        BY <1>0, <1>3, <1>4, <1>5, <2>3, <3>1, <4>1, RowFacts DEF FullInv, Holding, HeldApart
    <3>3. x \in del[s]
      BY <2>0, <3>2
    <3> QED
      BY <3>1, <3>3, StuckRemovals
  <2> QED
    BY <2>1, <2>2, <2>3
<1>7. CASE Existing(t, r) = {} /\ HoldsRole(s) /\ r.tab = "policy_role" /\ r.policy.kind = "owner"
  <2>1. At(t) \in {6, 13}
    BY <1>0, <1>3, <1>4, <1>7, RowFacts, OfferedFor DEF Link, Grant
  <2>2. r = RoleLink(id[t].policy) /\ r.policy = id[t].policy
    BY <1>0, <1>3, <2>1, RowFacts, OfferedFor DEF RoleLink
  <2>3. At(t) = 6
    BY <1>5, <1>7, <2>1, <2>2
  <2> QED
    BY <1>3, <1>7, <2>2, <2>3
<1> QED
  BY <1>2, <1>3, <1>6, <1>7, StuckInserts

\* What holds of each of them.
LEMMA StuckFacts ==
    ASSUME FullInv, NEW S, Stuck(S), NEW t \in S
    PROVE  /\ t \in Tx /\ Open(t) /\ Waits(t) \cap S # {} /\ call[t] \in Request
           /\ call[t].op \in {"create", "addOwner", "removeOwner"}
           /\ Statement(t) \notin {"commit", "target"}
           /\ call[t].op \in Inserting => At(t) \in 1 .. 16
           /\ \A x \in Held(t) : HoldsFor(t, x) /\ x \in Row
<1>1. t \in Tx /\ Open(t) /\ Waits(t) \cap S # {}
      /\ call[t].op \in {"create", "addOwner", "removeOwner"}
  BY DEF Stuck, Deadlocked
<1>2. call[t] \in Request /\ (call[t].op \in Inserting => At(t) \in 1 .. 16)
  BY <1>1, WhoRuns, Position DEF FullInv, IndInv
<1>3. Statement(t) \in {"commit", "target"} => Waits(t) = {}
  BY DEF Waits, Offered, Deletes
<1>4. \A x \in Held(t) : HoldsFor(t, x) /\ x \in Row
  BY <1>1 DEF FullInv, Writing, Held, IndInv, Control, Typed
<1> QED
  BY <1>1, <1>2, <1>3, <1>4

\* So they wait at their first statements only: for roles, for a path, at the
\* user, at the owner policy or at its role.
LEMMA StuckEarly ==
    ASSUME FullInv, NEW S, Stuck(S), NEW t \in S
    PROVE  call[t].op \in Inserting /\ At(t) \in {1, 2, 3, 4, 6}
<1>0. ASSUME NEW q \in S
      PROVE  /\ q \in Tx /\ Open(q) /\ Waits(q) \cap S # {} /\ call[q] \in Request
             /\ call[q].op \in {"create", "addOwner", "removeOwner"}
             /\ Statement(q) \notin {"commit", "target"}
             /\ call[q].op \in Inserting => At(q) \in 1 .. 16
             /\ \A x \in Held(q) : HoldsFor(q, x) /\ x \in Row
  BY StuckFacts
<1>1. ASSUME NEW q \in S, call[q].op \in Inserting, At(q) >= 3
      PROVE  \/ At(q) \in {3, 4, 6}
             \/ At(q) = 8 /\ \E s \in S : del[s] # {}
             \/ At(q) = 11 /\ \E s \in S : \E x \in Held(s) :
                   x.tab = "policy" /\ x.kind = "admin"
  <2>1. Statement(q) \in Upserts
    <3>1. At(q) \in {3, 4, 5, 6, 7, 8, 9, 10, 11, 12, 13, 14, 15, 16} /\ Statement(q) # "commit"
      BY <1>0, <1>1
    <3> QED
      BY <1>0, <1>1, <3>1, Position DEF Upserts, FullInv, IndInv, Inserting
  <2> QED
    BY <1>1, <2>1, StuckUpserts
\* Behind the grant.
<1>2. ASSUME NEW q \in S, call[q].op \in Inserting, At(q) >= 9 PROVE FALSE
  <2>1. At(q) \in Nat
    BY <1>0, <1>2
  <2>2. PICK s \in S : \E x \in Held(s) : x.tab = "policy" /\ x.kind = "admin"
    BY <1>1, <1>2, <2>1
  <2>3. call[s].op \in Inserting /\ At(s) >= 12
    BY <1>0, <2>2 DEF HoldsFor
  <2>4. At(s) \in Nat
    BY <1>0, <2>3
  <2> QED
    BY <1>1, <2>3, <2>4
\* A grant or record that a removal waits for is another removal's: a grant.
<1>3. ASSUME NEW q \in S, call[q].op = "removeOwner"
      PROVE  pc[q] = 1 /\ \E s \in S : call[s].op = "removeOwner" /\ pc[s] = 2
  <2>1. Statement(q) \in Deletes
    BY <1>0, <1>3, StatementAt, WhoRuns DEF Deletes, FullInv, IndInv
  <2>2. Waits(q) = UNION {WaitsToDelete(q, y) : y \in todo[q]}
    BY <2>1 DEF Waits, Deletes
  <2>3. PICK y \in todo[q], s \in S : s \in WaitsToDelete(q, y)
    BY <1>0, <2>2
  <2>4. y.tab \in {"usr_policy", "ownership_binding_metadata"} /\ y \in Row
        /\ (y.tab = "usr_policy" <=> pc[q] = 1)
    BY <1>0, <1>3 DEF FullInv, Erasing, Removing, OwnerGrant, OwnerRecord, IndInv, Control, Typed
  <2>5. y \notin Shares(s)
    <3>1. \A r \in ins[s] : r \in Row
      BY <1>0 DEF FullInv, IndInv, Control, Typed
    <3>2. y \notin PolicyRow \cup ResourceRow
      BY <2>4, RowOf
    <3> QED
      BY <3>1, <3>2, RowFacts DEF Shares
  <2>6. y \notin upd[s]
    <3> SUFFICES ASSUME y \in upd[s] PROVE FALSE
      OBVIOUS
    <3>1. call[s].op \in Inserting /\ At(s) >= 9
      <4>1. HoldsFor(s, y) /\ (call[s].op \in Inserting => At(s) \in Nat)
        BY <1>0 DEF Held
      <4> QED
        BY <2>4, <4>1 DEF HoldsFor
    <3> QED
      BY <1>2, <3>1
  <2>7. y \in del[s]
    BY <2>3, <2>5, <2>6 DEF WaitsToDelete
  <2> QED
    BY <2>4, <2>7, StuckRemovals
<1>4. ASSUME NEW q \in S PROVE call[q].op # "removeOwner"
  BY <1>3
\* The grant.
<1>5. ASSUME NEW q \in S, call[q].op \in Inserting, At(q) >= 7 PROVE FALSE
  <2>1. At(q) \in Nat
    BY <1>0, <1>5
  <2>2. PICK s \in S : del[s] # {}
    BY <1>1, <1>2, <1>5, <2>1
  <2> QED
    BY <1>4, <2>2, StuckRemovals
<1>6. call[t].op \in Inserting /\ At(t) \in {1, 2, 3, 4, 5, 6}
  BY <1>0, <1>4, <1>5 DEF Inserting
<1> QED
  BY <1>1, <1>6

\* What each of the first statements waits for.
LEMMA StuckFor ==
    ASSUME FullInv, NEW S, Stuck(S), NEW t \in S
    PROVE  /\ At(t) = 1 => \E s \in S : s # t /\ HoldsRole(s)
           /\ At(t) = 2 => HoldsRole(t) /\ \E s \in S : s # t /\ HoldsRole(s)
           /\ At(t) = 3 => \E s \in S : s # t /\ Usr(call[t].user) \in ins[s]
                                       /\ At(s) \in {4, 6} /\ Statement(t) = "user"
           /\ At(t) = 4 => \E s \in S : s # t /\ At(s) = 6 /\ call[s].path = call[t].path
                                       /\ Statement(s) = "ownerRole"
           /\ At(t) = 6 => /\ Existing(t, RoleLink(id[t].policy)) = {}
                           /\ \E s \in S : s # t /\ HoldsRole(s)
                           /\ Statement(t) = "ownerRole"
           /\ At(t) >= 3 /\ call[t].op = "create" => HoldsRole(t)
<1>0. ASSUME NEW q \in S
      PROVE  /\ q \in Tx /\ Open(q) /\ Waits(q) \cap S # {} /\ call[q] \in Request
             /\ call[q].op \in Inserting /\ At(q) \in {1, 2, 3, 4, 6}
             /\ Statement(q) \notin {"commit", "target"}
             /\ \A x \in Held(q) : HoldsFor(q, x) /\ x \in Row
  BY StuckFacts, StuckEarly
<1>1. call[t].op = "create" => pc[t] = At(t)
  BY DEF At
<1>2. call[t].op # "create" => At(t) \in {3, 4, 6}
  <2> SUFFICES ASSUME call[t].op = "addOwner" PROVE At(t) \notin {1, 2}
    BY <1>0 DEF Inserting
  <2>1. pc[t] \in 1 .. 16
    BY <1>0, WhoRuns DEF FullInv, IndInv
  <2>2. pc[t] = 1 => Statement(t) = "target"
    BY <1>0, <2>1, StatementAt
  <2> QED
    BY <1>0, <2>1, <2>2 DEF At
<1>3. CASE At(t) = 1
  <2>1. Statement(t) = "roles"
    BY <1>0, <1>1, <1>2, <1>3, StatementAt
  <2>2. PICK s \in S : s \in WaitsForRoles(t)
    <3>1. Waits(t) = WaitsForRoles(t)
      BY <2>1 DEF Waits, Deletes
    <3> QED
      BY <1>0, <3>1
  <2>3. ~ SharesRole(s)
    <3> SUFFICES ASSUME NEW r \in ins[s], r.tab = "policy_role" PROVE FALSE
      BY DEF SharesRole
    <3>1. HoldsFor(s, r)
      BY <1>0 DEF Held
    <3> QED
      BY <1>0, <3>1 DEF HoldsFor
  <2> QED
    BY <1>3, <2>2, <2>3 DEF WaitsForRoles, Others
<1>4. CASE At(t) = 2
  <2>1. Statement(t) = "resource" /\ HoldsRole(t)
    BY <1>0, <1>1, <1>2, <1>4, StatementAt DEF HoldsRole
  <2>2. Waits(t) = UNION {WaitsToInsert(t, r) : r \in NewRows(t)}
    BY <2>1 DEF Waits, Deletes
  <2>3. PICK r \in NewRows(t), s \in S : s \in WaitsToInsert(t, r)
    BY <1>0, <2>2
  <2>4. r \in Row /\ r.tab = "resource"
    <3>1. call[t].path \in Path
      BY <1>0 DEF Request
    <3>2. WithContainer(call[t].path) \subseteq Path
      BY <3>1, StatementsAssumption DEF WithContainer
    <3> QED
      BY <1>0, <3>2, WrittenRows, RowFacts DEF NewRows, ResourceRow
  <2>5. PICK x \in Row : x \in Held(s) \cup del[s] /\ SameKey(r, x)
    BY <2>3, <2>4, StuckInserts
  <2>6. x.tab = "resource"
    BY <2>4, <2>5, KeysTell
  <2>7. x \in Held(s)
    BY <2>5, <2>6, StuckRemovals
  <2>8. HoldsRole(s)
    <3>1. call[s].op = "create" /\ pc[s] >= 3 /\ At(s) \in {1, 2, 3, 4, 6}
      BY <1>0, <2>6, <2>7 DEF HoldsFor
    <3> QED
      BY <3>1 DEF HoldsRole, At
  <2> QED
    BY <1>4, <2>1, <2>3, <2>4, <2>8, StuckInserts
<1>5. ASSUME At(t) \in {3, 4, 6}
      PROVE  /\ Statement(t) \in Upserts
             /\ At(t) = 3 <=> Statement(t) = "user"
             /\ At(t) = 6 <=> Statement(t) = "ownerRole"
             /\ call[t].op = "create" => HoldsRole(t)
  BY <1>0, <1>1, <1>5, Position DEF Upserts, HoldsRole, FullInv, IndInv
<1>6. CASE At(t) = 3
  <2>1. PICK s \in S : s # t /\ Usr(call[t].user) \in Held(s)
    BY <1>0, <1>5, <1>6, StuckUpserts
  <2>2. HoldsFor(s, Usr(call[t].user)) /\ Usr(call[t].user).tab = "usr"
    BY <1>0, <2>1 DEF Usr
  <2>3. Usr(call[t].user) \in ins[s] /\ At(s) >= 4
    BY <2>2 DEF HoldsFor
  <2>4. At(s) \in {4, 6}
    BY <1>0, <2>3
  <2> QED
    BY <1>5, <1>6, <2>1, <2>3, <2>4
<1>7. CASE At(t) = 4
  <2>1. PICK s \in S : \E x \in Held(s) :
            s # t /\ x.tab = "policy" /\ x.kind = "owner" /\ x.path = call[t].path
    BY <1>0, <1>5, <1>7, StuckUpserts
  <2>2. At(s) >= 5 /\ call[s].path = call[t].path /\ s # t
    BY <1>0, <2>1 DEF HoldsFor
  <2>3. At(s) = 6
    BY <1>0, <2>2
  <2>4. Statement(s) = "ownerRole"
    BY <1>0, <2>3, Position DEF FullInv, IndInv
  <2> QED
    BY <1>5, <1>7, <2>2, <2>3, <2>4
<1>8. CASE At(t) = 6
  <2>0. call[t].op \in Inserting /\ Statement(t) \in Upserts
    BY <1>0, <1>5, <1>8
  <2>1. Existing(t, RoleLink(id[t].policy)) = {} /\ \E s \in S : s # t /\ HoldsRole(s)
    BY <1>8, <2>0, StuckUpserts
  <2> QED
    BY <1>5, <1>8, <2>1
<1> QED
  BY <1>0, <1>3, <1>4, <1>5, <1>6, <1>7, <1>8

\* Somebody in a circle without a delete has the role; it waits at the user.
LEMMA StuckAtTheUser ==
    ASSUME RolesInv, NEW S, Stuck(S)
    PROVE  \E t, s \in S : /\ Statement(t) = "user" /\ call[t].op = "create"
                           /\ call[s].op = "addOwner" /\ Usr(call[t].user) \in ins[s]
                           /\ \E q \in S : Statement(q) = "ownerRole"
<1>0. FullInv /\ CreatesAlone
  BY DEF RolesInv
<1>1. ASSUME NEW q \in S
      PROVE  /\ q \in Tx /\ Open(q) /\ call[q].op \in Inserting /\ At(q) \in {1, 2, 3, 4, 6}
             /\ call[q] \in Request
  BY <1>0, StuckFacts, StuckEarly
<1>2. PICK c \in S : HoldsRole(c)
  <2>1. PICK q \in S : TRUE
    BY DEF Stuck, Deadlocked
  <2>2. ASSUME NEW t \in S, At(t) \in {1, 2, 6} PROVE \E s \in S : HoldsRole(s)
    BY <1>0, <2>2, StuckFor
  <2>3. ASSUME NEW t \in S, At(t) = 4 PROVE \E s \in S : HoldsRole(s)
    BY <1>0, <2>2, <2>3, StuckFor
  <2>4. ASSUME NEW t \in S, At(t) = 3 PROVE \E s \in S : HoldsRole(s)
    <3>1. \E s \in S : At(s) \in {4, 6}
      BY <1>0, <2>4, StuckFor
    <3> QED
      BY <2>2, <2>3, <3>1
  <2> QED
    BY <1>1, <2>1, <2>2, <2>3, <2>4
<1>3. ASSUME NEW s \in S, s # c PROVE ~ HoldsRole(s)
  BY <1>0, <1>1, <1>2, <1>3 DEF CreatesAlone
<1>4. call[c].op = "create" /\ At(c) \in {2, 3, 4, 6} /\ pc[c] = At(c)
  BY <1>1, <1>2 DEF HoldsRole, At
<1>5. At(c) \notin {2, 6}
  BY <1>0, <1>3, StuckFor
<1>6. ASSUME NEW s \in S, s # c, At(s) \in {4, 6} PROVE call[s].op = "addOwner"
  BY <1>0, <1>1, <1>3, <1>6, StuckFor DEF Inserting
\* An AddOwner for the same path that has inserted the policy has attached it
\* to the resource, which the create has not found.
<1>7. At(c) # 4
  <2> SUFFICES ASSUME At(c) = 4 PROVE FALSE
    OBVIOUS
  <2>1. PICK s \in S : s # c /\ At(s) = 6 /\ call[s].path = call[c].path
    BY <1>0, StuckFor
  <2> DEFINE n == id[s].policy
             r == id[s].resource
  <2>2. call[s].op = "addOwner" /\ Existing(s, RoleLink(n)) = {} /\ s \in Tx
    BY <1>0, <1>1, <1>6, <2>1, StuckFor
  <2>3. n \in Held(s) /\ n.kind = "owner" /\ r.path = call[s].path
    BY <1>0, <1>1, <2>1 DEF FullInv, Writing, Working
  <2>4. n \in PolicyRow /\ r \in ResourceRow
    <3>1. pc[s] >= 4 /\ pc[s] >= 2
      <4>1. pc[s] + 1 = 6 /\ pc[s] \in Nat
        BY <2>1, <2>2 DEF At, RolesInv, FullInv, IndInv, Control, Typed
      <4> QED
        BY <4>1
    <3>2. Open(s) /\ call[s].op = "addOwner" /\ s \in Tx
      BY <1>1, <2>1, <2>2
    <3> QED
      BY <1>0, <3>1, <3>2 DEF FullInv, IndInv, Control, Resolved, Open
  <2>5. n \in ins[s]
    <3> SUFFICES ASSUME n \notin ins[s] PROVE FALSE
      OBVIOUS
    <3>1. n \in db
      BY <1>0, <2>2, <2>3 DEF FullInv, Holding, RowsThere, Held
    <3>2. RoleLink(n) \in db /\ RoleLink(n) \in Visible(s)
      <4>1. del[s] = {}
        BY <1>0, <1>1, <2>2 DEF FullInv, IndInv, Control, Shaped, Open
      <4> QED
        BY <2>4, <3>1, <4>1 DEF RolesInv, RolesLinked, PolicyRow, Visible
    <3> QED
      BY <2>2, <3>2, RowFacts DEF Existing
  <2>6. Link(n, r) \in ins[s]
    BY <2>1, <2>2, <2>3, <2>4, <2>5 DEF RolesInv, Linking, PolicyRow
  <2>7. r \in db
    <3>1. r \in Refs(Link(n, r))
      BY <2>4 DEF Link, Refs
    <3>2. r \in db \cup ins[s]
      BY <1>0, <2>2, <2>6, <3>1 DEF FullInv, IndInv, Locked, InsertedHold
    <3>3. r \notin ins[s]
      BY <1>0, <2>2, <2>4, CreatedPath DEF ResourceRow
    <3> QED
      BY <3>2, <3>3
  <2>8. c \in Tx /\ Open(c) /\ At(c) >= 3 /\ call[c].path \in WithContainer(call[c].path)
    BY <1>1 DEF WithContainer
  <2> QED
    BY <1>0, <1>4, <2>1, <2>3, <2>4, <2>7, <2>8, OwnResource DEF ResourceRow
<1>8. At(c) = 3
  BY <1>4, <1>5, <1>7
<1>9. PICK s \in S : s # c /\ Usr(call[c].user) \in ins[s] /\ At(s) \in {4, 6}
  BY <1>0, <1>8, StuckFor
<1>10. Statement(c) = "user" /\ call[s].op = "addOwner"
  BY <1>0, <1>6, <1>8, <1>9, StuckFor
<1>11. \E q \in S : Statement(q) = "ownerRole"
  BY <1>0, <1>9, StuckFor
<1> QED
  BY <1>4, <1>9, <1>10, <1>11

\* Creates, AddOwner and RemoveOwner, however many, wait for each other in a
\* circle only at a user who is new, between a create and an AddOwner; every
\* other deadlock has a delete of a resource in it.
THEOREM DeadlockTheorem == Spec => []DeadlocksExplained
<1>1. RolesInv => DeadlocksExplained
  <2> SUFFICES ASSUME RolesInv, NEW S \in SUBSET Tx, Deadlocked(S),
                      ~ \E t \in S : call[t].op \in {"delete", "genericDelete"}
               PROVE  \E t, s \in S : /\ Statement(t) = "user" /\ call[t].op = "create"
                                      /\ call[s].op = "addOwner" /\ Usr(call[t].user) \in ins[s]
                                      /\ \E q \in S : Statement(q) = "ownerRole"
    BY DEF DeadlocksExplained
  <2>1. ASSUME NEW t \in S PROVE call[t].op \in Operations
    BY <2>1 DEF Deadlocked, Open, RolesInv, FullInv, IndInv, Control, Shaped, Request
  <2>2. Stuck(S)
    BY <2>1 DEF Stuck, Operations
  <2> QED
    BY <2>2, StuckAtTheUser
<1> QED
  BY <1>1, RolesInvariance, PTL

----------------------------------------------------------------------------
(* The protection SELECT of a generic delete.                              *)

\* A link of an admin policy to the path that t deletes.
Protecting(t, l) ==
    l.tab = "policy_resource" /\ l.policy.kind = "admin" /\ l.resource.path = call[t].path

\* Once it has looked, the protection that t has missed is of transactions
\* that were open then.
Unseen(t) ==
    Open(t) /\ call[t].op = "genericDelete" =>
        /\ pc[t] = 1 => del[t] = {}
        /\ pc[t] >= 2 =>
              /\ Others(t) \subseteq missed[t]
              /\ \A l \in db : Protecting(t, l) =>
                    l.policy.by \in missed[t] \/ l.resource.by \in missed[t]

MissedInv == FullInv /\ missed \in [Tx -> SUBSET Tx] /\ \A t \in Tx : Unseen(t)

\* The others, whatever t does.
LEMMA UnseenElsewhere ==
    ASSUME MissedInv, NEW t \in Tx, Open(t), Elsewhere(t), NEW s \in Tx \ {t},
           missed'[s] = missed[s], db' \subseteq db \cup ins[t]
    PROVE  Unseen(s)'
<1>1. /\ Unseen(s) /\ pc'[s] = pc[s] /\ call'[s] = call[s] /\ del'[s] = del[s]
      /\ Open(s)' <=> Open(s)
  BY DEF MissedInv, Elsewhere, Open
<1> SUFFICES ASSUME Open(s), call[s].op = "genericDelete", pc[s] >= 2
             PROVE  /\ Others(s)' \subseteq missed[s]
                    /\ \A l \in db' : Protecting(s, l) =>
                          l.policy.by \in missed[s] \/ l.resource.by \in missed[s]
  BY <1>1 DEF Unseen, Protecting
<1>2. t \in Others(s) /\ Others(s) \subseteq missed[s]
  BY <1>1 DEF Unseen, Others
<1>3. Others(s)' \subseteq missed[s]
  BY <1>2 DEF Elsewhere, Others, Open
<1>4. ASSUME NEW l \in ins[t], Protecting(s, l) PROVE l.resource.by = t
  <2>1. HoldsFor(t, l)
    BY DEF MissedInv, FullInv, Writing, Held
  <2>2. l.resource \in NewRows(t)
    BY <1>4, <2>1 DEF HoldsFor, Protecting
  <2> QED
    BY <2>2 DEF NewRows, Resource
<1> QED
  BY <1>1, <1>2, <1>3, <1>4 DEF Unseen

LEMMA InitMissed == Init => MissedInv
<1> SUFFICES ASSUME Init PROVE MissedInv
  OBVIOUS
<1>1. \A t \in Tx : Unseen(t)
  BY DEF Init, Unseen
<1> QED
  BY <1>1, InitFull DEF Init, MissedInv

LEMMA StepMissed == MissedInv /\ [Next]_vars => MissedInv'
<1> SUFFICES ASSUME MissedInv, [Next]_vars PROVE MissedInv'
  OBVIOUS
<1>1. FullInv' /\ FullInv /\ Control
  BY StepFull DEF MissedInv, FullInv, IndInv
<1>2. CASE UNCHANGED vars
  BY <1>1, <1>2 DEF vars, MissedInv, Unseen, Others, Protecting, Open
<1>3. ASSUME NEW t \in Tx, Open(t), Step(t) \/ Fail(t) PROVE MissedInv'
  <2>0. ASSUME Elsewhere(t), db' \subseteq db \cup ins[t], missed' \in [Tx -> SUBSET Tx],
               \A s \in Tx \ {t} : missed'[s] = missed[s], Unseen(t)'
        PROVE  MissedInv'
    BY <1>1, <1>3, <2>0, UnseenElsewhere DEF MissedInv
  <2>1. ASSUME End(t), db' \subseteq db \cup ins[t], Elsewhere(t) PROVE MissedInv'
    <3>1. pc'[t] = 0 /\ missed' \in [Tx -> SUBSET Tx] /\ \A s \in Tx \ {t} : missed'[s] = missed[s]
      BY <1>1, <2>1 DEF End, MissedInv, Control, Typed
    <3>2. Unseen(t)'
      BY <3>1 DEF Unseen, Open
    <3> QED
      BY <2>0, <2>1, <3>1, <3>2
  <2>2. CASE Rollback(t)
    BY <1>1, <2>1, <2>2, RollbackControl DEF Rollback
  <2>3. ASSUME Commit(t), ~ Rollback(t) PROVE MissedInv'
    <3>1. Committing(t)
      BY <2>3 DEF Commit, Committing
    <3>2. Elsewhere(t) /\ db' \subseteq db \cup ins[t]
      BY <1>1, <1>3, <3>1, CommitFacts
    <3> QED
      BY <2>1, <3>1, <3>2 DEF Committing
  \* The statements of the others, which leave missed alone.
  <2>4. ASSUME Elsewhere(t), UNCHANGED <<db, call, missed>>, call[t].op # "genericDelete"
        PROVE  MissedInv'
    <3>1. Unseen(t)'
      BY <2>4 DEF Unseen
    <3> QED
      BY <2>0, <2>4, <3>1 DEF MissedInv
  <2>5. ASSUME EnsureRoles(t) \/ InsertResource(t) \/ ResolveTarget(t), ~ Rollback(t)
        PROVE  MissedInv'
    <3>1. call[t].op # "genericDelete" /\ Elsewhere(t)
      BY <1>1, <1>3, <2>5, WhoRuns, LookupControl DEF EnsureRoles, InsertResource, ResolveTarget
    <3>2. UNCHANGED <<db, call, missed>>
      BY <2>5 DEF EnsureRoles, InsertResource, ResolveTarget
    <3> QED
      BY <2>4, <3>1, <3>2
  <2>6. ASSUME Upsert(t), ~ Rollback(t) PROVE MissedInv'
    <3>1. call[t].op # "genericDelete" /\ Elsewhere(t)
      BY <1>1, <1>3, <2>6, WhoRuns, UpsertControl, UpsertStatements DEF Upsert
    <3>2. UNCHANGED <<db, call, missed>>
      BY <2>6 DEF Upsert
    <3> QED
      BY <2>4, <3>1, <3>2
  <2>7. ASSUME CheckProtection(t), ~ Rollback(t) PROVE MissedInv'
    <3>1. call[t].op = "genericDelete" /\ pc[t] = 1 /\ Elsewhere(t) /\ call[t].op \in Deleting
      BY <1>1, <1>3, <2>7, WhoRuns, DeleteControl DEF CheckProtection, Deleting
    <3>2. Visible(t) = db
      BY <1>1, <1>3, <3>1, DeletingHoldsNothing DEF MissedInv, Unseen
    <3>3. /\ ~ Protected(call[t].path, db) /\ missed' = [missed EXCEPT ![t] = Others(t)]
          /\ Advance(t) /\ UNCHANGED <<db, call>>
      BY <2>7, <3>2 DEF CheckProtection
    <3>4. /\ pc'[t] = 2 /\ missed'[t] = Others(t) /\ missed' \in [Tx -> SUBSET Tx]
          /\ \A s \in Tx \ {t} : missed'[s] = missed[s]
      BY <1>1, <3>1, <3>3 DEF Advance, MissedInv, Control, Typed, Others
    <3>5. ASSUME NEW l \in db, Protecting(t, l) PROVE FALSE
      <4>1. PICK m \in db : m.tab = "generated_policy_metadata" /\ m.policy = l.policy
        BY <1>1, <3>5 DEF FullInv, Committed, Generated, Protecting
      <4> QED
        BY <3>3, <3>5, <4>1 DEF Protected, Protecting
    <3>6. Others(t)' \subseteq Others(t)
      BY <3>1 DEF Elsewhere, Others, Open
    <3>7. Unseen(t)'
      BY <3>3, <3>4, <3>5, <3>6 DEF Unseen, Protecting
    <3> QED
      BY <2>0, <3>1, <3>3, <3>4, <3>7
  <2>8. ASSUME StartDelete(t) \/ DeleteRow(t) \/ FireTriggers(t) PROVE MissedInv'
    <3>1. Elsewhere(t) /\ UNCHANGED <<db, call, missed>>
      BY <1>1, <1>3, <2>8, DeleteControl DEF StartDelete, DeleteRow, FireTriggers
    <3>2. Statement(t) \in Deletes
      BY <1>1, <2>8 DEF Control, Shaped, StartDelete, DeleteRow, FireTriggers
    <3>3. ASSUME call[t].op = "genericDelete" PROVE pc[t] >= 2 /\ pc'[t] >= 2
      <4>1. pc[t] = 2
        BY <1>1, <1>3, <3>2, <3>3, WhoRuns, StatementAt DEF Deletes
      <4> QED
        BY <1>1, <2>8, <4>1 DEF StartDelete, DeleteRow, FireTriggers, Advance, Control, Typed
    <3>4. Others(t)' \subseteq Others(t)
      BY <3>1 DEF Elsewhere, Others, Open
    <3>5. Unseen(t)'
      BY <1>3, <3>1, <3>3, <3>4 DEF MissedInv, Unseen, Protecting
    <3> QED
      BY <2>0, <3>1, <3>5 DEF MissedInv
  <2> QED
    BY <1>3, <2>2, <2>3, <2>5, <2>6, <2>7, <2>8 DEF Step, Fail, Victim
<1> QED
  BY <1>2, <1>3 DEF Next

\* A generic delete that commits the deletion of a protected resource has
\* missed only what had not committed when its SELECT looked.
THEOREM ProtectionTheorem == Spec => ProtectionMissedOnlyInFlight
<1> DEFINE Missing ==
        \A t \in Tx : Statement(t) = "commit" /\ call[t].op = "genericDelete" /\ call'[t] = None =>
            \A l \in db \ db' :
                l.tab = "policy_resource" /\ l.policy.kind = "admin" /\ l.resource.path = call[t].path
                    => l.policy.by \in missed[t] \/ l.resource.by \in missed[t]
<1>1. MissedInv => Missing
  <2> SUFFICES ASSUME MissedInv, NEW t \in Tx, Statement(t) = "commit",
                      call[t].op = "genericDelete", NEW l \in db,
                      l.tab = "policy_resource", l.policy.kind = "admin",
                      l.resource.path = call[t].path
               PROVE  l.policy.by \in missed[t] \/ l.resource.by \in missed[t]
    OBVIOUS
  <2>1. Open(t)
    BY DEF Statement
  <2>2. call[t] \in Request /\ pc[t] \in 1 .. 16
    BY <2>1, WhoRuns DEF MissedInv, FullInv, IndInv
  <2>3. pc[t] >= 2
    BY <2>2, StatementAt
  <2> QED
    BY <2>1, <2>3 DEF MissedInv, Unseen, Protecting
<1>2. MissedInv /\ [Next]_vars => [Missing]_vars
  BY <1>1
<1>3. Spec => []MissedInv
  BY InitMissed, StepMissed, PTL DEF Spec
<1> QED
  BY <1>2, <1>3, PTL DEF Spec, ProtectionMissedOnlyInFlight
=============================================================================
