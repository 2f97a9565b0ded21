-------------------------- MODULE StatementsProofs --------------------------
(***************************************************************************)
(* The transactions of the ownership endpoints, statement by statement and *)
(* for any number of them at a time: their locks are enough for keys and   *)
(* foreign keys.                                                           *)
(***************************************************************************)
EXTENDS Statements, TLAPS

Request == [op : Operations, path : Path, user : User]

Inserting == {"create", "addOwner"}

Deleting == {"removeOwner", "delete", "genericDelete"}

\* What the variables hold.
Typed ==
    /\ db \subseteq Row
    /\ call \in [Tx -> Request \cup {None}]
    /\ pc \in [Tx -> 0 .. 16]
    /\ ins \in [Tx -> SUBSET Row] /\ del \in [Tx -> SUBSET Row] /\ upd \in [Tx -> SUBSET Row]
    /\ todo \in [Tx -> SUBSET Row] /\ batch \in [Tx -> SUBSET Row]
    /\ id \in [Tx -> [resource : ResourceRow \cup {None}, policy : PolicyRow \cup {None}]]
    /\ phase \in [Tx -> {"start", "rows", "cascade"}]

\* A transaction that has ended has nothing; an open one inserts or deletes,
\* never both, and is inside a DELETE only where it runs one.
Shaped(t) ==
    /\ pc[t] = 0 => ins[t] = {} /\ del[t] = {} /\ upd[t] = {} /\ todo[t] = {}
                    /\ batch[t] = {} /\ phase[t] = "start"
    /\ pc[t] # 0 => call[t] \in Request
    /\ pc[t] # 0 /\ call[t].op \in Inserting =>
          /\ del[t] = {} /\ todo[t] = {} /\ batch[t] = {} /\ phase[t] = "start"
          /\ call[t].op = "addOwner" => pc[t] <= 10
    /\ pc[t] # 0 /\ call[t].op \in Deleting => ins[t] = {} /\ upd[t] = {} /\ pc[t] <= 3
    /\ phase[t] # "start" => Statement(t) \in Deletes
    /\ phase[t] = "start" => todo[t] = {} /\ batch[t] = {}

\* The ids that the upserts use have been looked up.
Resolved(t) ==
    /\ pc[t] # 0 /\ call[t].op = "create" =>
          /\ pc[t] >= 3 => id[t].resource \in ResourceRow
          /\ pc[t] >= 5 => id[t].policy \in PolicyRow
    /\ pc[t] # 0 /\ call[t].op = "addOwner" =>
          /\ pc[t] >= 2 => id[t].resource \in ResourceRow
          /\ pc[t] >= 4 => id[t].policy \in PolicyRow

Control == Typed /\ \A t \in Tx : Shaped(t) /\ Resolved(t)

\* Keys: of committed rows, of a transaction's rows, and between them.
KeysUnique == \A r, s \in db : SameKey(r, s) => r = s

InsertedUnique == \A t \in Tx : \A r, s \in ins[t] : SameKey(r, s) => r = s

InsertedFresh == \A t \in Tx : \A r \in ins[t], x \in db : ~ SameKey(r, x)

InsertedApart ==
    \A s, t \in Tx : s # t => \A r \in ins[s], x \in ins[t] : ~ SameKey(r, x)

\* Foreign keys: of committed rows, of inserted ones, and nobody deletes what
\* another's insert refers to.
ReferencesHold == \A r \in db : Refs(r) \subseteq db

InsertedHold == \A t \in Tx : \A r \in ins[t] : Refs(r) \subseteq db \cup ins[t]

ReferencesKept ==
    \A s, t \in Tx : s # t => \A r \in ins[s] : Refs(r) \cap del[t] = {}

\* A row whose reference is deleted has been deleted too, is about to be, or
\* is about to be looked for.
CascadesPending ==
    \A t \in Tx : \A y \in db \ del[t] :
        \/ Refs(y) \cap del[t] = {}
        \/ phase[t] = "rows" /\ Refs(y) \cap del[t] \subseteq batch[t]
        \/ phase[t] = "cascade" /\ y \in todo[t]

\* What is deleted in a cascade is nothing that others refer to.
CascadeIsFlat == \A t \in Tx : phase[t] = "cascade" => \A y \in todo[t] : Refs(y) # {}

Locked ==
    /\ KeysUnique /\ InsertedUnique /\ InsertedFresh /\ InsertedApart
    /\ ReferencesHold /\ InsertedHold /\ ReferencesKept /\ CascadesPending /\ CascadeIsFlat

\* The inductive invariant.
IndInv == Control /\ Locked

----------------------------------------------------------------------------
(* Rows.                                                                   *)

\* Only policies and resources are referred to, and they refer to nothing.
LEMMA RowFacts ==
    /\ PolicyRow \subseteq Row /\ ResourceRow \subseteq Row
    /\ \A r \in PolicyRow \cup ResourceRow : Refs(r) = {}
    /\ \A r \in Row : Refs(r) \subseteq PolicyRow \cup ResourceRow
    /\ \A r, x : SameKey(r, x) <=> SameKey(x, r)
    /\ \A r : SameKey(r, r)
<1>1. PolicyRow \subseteq Row /\ ResourceRow \subseteq Row
  BY DEF Row
<1>2. \A r \in PolicyRow \cup ResourceRow : Refs(r) = {}
  BY DEF PolicyRow, ResourceRow, Refs
<1>3. ASSUME NEW r \in Row PROVE Refs(r) \subseteq PolicyRow \cup ResourceRow
  <2>1. CASE r \in PolicyRow \cup ResourceRow
    BY <1>2, <2>1
  <2>2. CASE r \in [tab : {"policy_resource", "generated_policy_metadata"},
                    policy : PolicyRow, resource : ResourceRow]
    BY <2>2 DEF Refs
  <2>3. CASE r \in [tab : {"usr_policy"}, user : User, policy : PolicyRow]
             \cup [tab : {"policy_role"}, policy : PolicyRow] \cup [tab : {"usr"}, name : User]
    BY <2>3 DEF Refs
  <2>4. CASE r \in [tab : {"ownership_binding_metadata"}, user : User, policy : PolicyRow,
                    resource : ResourceRow]
    BY <2>4 DEF Refs
  <2> QED
    BY <2>1, <2>2, <2>3, <2>4 DEF Row
<1>4. /\ \A r, x : SameKey(r, x) <=> SameKey(x, r)
      /\ \A r : SameKey(r, r)
  BY DEF SameKey
<1> QED
  BY <1>1, <1>2, <1>3, <1>4

\* The rows that statements write.
LEMMA WrittenRows ==
    /\ \A p \in Path, t \in Tx : Resource(p, t) \in ResourceRow
    /\ \A k \in {"owner", "admin"}, p \in Path, t \in Tx : Policy(k, p, t) \in PolicyRow
    /\ \A n \in PolicyRow, r \in ResourceRow :
          /\ Link(n, r) \in Row /\ Metadata(n, r) \in Row
          /\ \A u \in User : Binding(u, n, r) \in Row
    /\ \A n \in PolicyRow : RoleLink(n) \in Row /\ \A u \in User : Grant(u, n) \in Row
    /\ \A u \in User : Usr(u) \in Row
<1>1. /\ \A p \in Path, t \in Tx : Resource(p, t) \in ResourceRow
      /\ \A k \in {"owner", "admin"}, p \in Path, t \in Tx : Policy(k, p, t) \in PolicyRow
  BY DEF Resource, ResourceRow, Policy, PolicyRow
<1>2. ASSUME NEW n \in PolicyRow, NEW r \in ResourceRow
      PROVE  Link(n, r) \in Row /\ Metadata(n, r) \in Row
  BY DEF Link, Metadata, Row
<1>3. ASSUME NEW n \in PolicyRow, NEW r \in ResourceRow, NEW u \in User
      PROVE  Binding(u, n, r) \in Row
  BY DEF Binding, Row
<1>4. ASSUME NEW n \in PolicyRow, NEW u \in User PROVE Grant(u, n) \in Row
  BY DEF Grant, Row
<1>5. ASSUME NEW n \in PolicyRow PROVE RoleLink(n) \in Row
  BY DEF RoleLink, Row
<1>6. ASSUME NEW u \in User PROVE Usr(u) \in Row
  BY DEF Usr, Row
<1> QED
  BY <1>1, <1>2, <1>3, <1>4, <1>5, <1>6

\* Rows with the key of a policy or resource are policies or resources.
LEMMA KeyFacts ==
    ASSUME NEW x \in Row, NEW p \in Path, NEW t \in Tx
    PROVE  /\ SameKey(Resource(p, t), x) <=> x \in ResourceRow /\ x.path = p
           /\ \A k \in {"owner", "admin"} :
                 SameKey(Policy(k, p, t), x) <=> x \in PolicyRow /\ x.path = p /\ x.kind = k
<1>1. x.tab = "resource" => x \in ResourceRow
  BY DEF Row, PolicyRow, ResourceRow
<1>2. x.tab = "policy" => x \in PolicyRow
  BY DEF Row, PolicyRow, ResourceRow
<1>3. SameKey(Resource(p, t), x) <=> x \in ResourceRow /\ x.path = p
  BY <1>1 DEF SameKey, Key, Resource, ResourceRow
<1>4. ASSUME NEW k \in {"owner", "admin"}
      PROVE  SameKey(Policy(k, p, t), x) <=> x \in PolicyRow /\ x.path = p /\ x.kind = k
  BY <1>2 DEF SameKey, Key, Policy, PolicyRow
<1> QED
  BY <1>3, <1>4

----------------------------------------------------------------------------
(* Programs.                                                               *)

\* Which statement a transaction is at.
LEMMA StatementAt ==
    ASSUME NEW t \in Tx, pc[t] \in 1 .. 16, call[t] \in Request
    PROVE  /\ call[t].op = "create" =>
                 /\ pc[t] = 1 => Statement(t) = "roles"
                 /\ pc[t] = 2 => Statement(t) = "resource"
                 /\ pc[t] = 3 => Statement(t) = "user"
                 /\ pc[t] = 4 => Statement(t) = "ownerPolicy"
                 /\ pc[t] = 5 => Statement(t) = "ownerLink"
                 /\ pc[t] = 6 => Statement(t) = "ownerRole"
                 /\ pc[t] = 7 => Statement(t) = "ownerMetadata"
                 /\ pc[t] = 8 => Statement(t) = "grant"
                 /\ pc[t] = 9 => Statement(t) = "binding"
                 /\ pc[t] = 10 => Statement(t) = "ownerContainer"
                 /\ pc[t] = 11 => Statement(t) = "adminPolicy"
                 /\ pc[t] = 12 => Statement(t) = "adminLink"
                 /\ pc[t] = 13 => Statement(t) = "adminRole"
                 /\ pc[t] = 14 => Statement(t) = "adminMetadata"
                 /\ pc[t] = 15 => Statement(t) = "adminContainer"
                 /\ pc[t] = 16 => Statement(t) = "commit"
           /\ call[t].op = "addOwner" =>
                 /\ pc[t] = 1 => Statement(t) = "target"
                 /\ pc[t] = 2 => Statement(t) = "user"
                 /\ pc[t] = 3 => Statement(t) = "ownerPolicy"
                 /\ pc[t] = 4 => Statement(t) = "ownerLink"
                 /\ pc[t] = 5 => Statement(t) = "ownerRole"
                 /\ pc[t] = 6 => Statement(t) = "ownerMetadata"
                 /\ pc[t] = 7 => Statement(t) = "grant"
                 /\ pc[t] = 8 => Statement(t) = "binding"
                 /\ pc[t] = 9 => Statement(t) = "ownerContainer"
                 /\ pc[t] > 9 => Statement(t) = "commit"
           /\ call[t].op = "removeOwner" =>
                 /\ pc[t] = 1 => Statement(t) = "deleteGrants"
                 /\ pc[t] = 2 => Statement(t) = "deleteBindings"
                 /\ pc[t] > 2 => Statement(t) = "commit"
           /\ call[t].op = "delete" =>
                 /\ pc[t] = 1 => Statement(t) = "deletePolicies"
                 /\ pc[t] = 2 => Statement(t) = "deleteResource"
                 /\ pc[t] > 2 => Statement(t) = "commit"
           /\ call[t].op = "genericDelete" =>
                 /\ pc[t] = 1 => Statement(t) = "protection"
                 /\ pc[t] = 2 => Statement(t) = "deleteResource"
                 /\ pc[t] > 2 => Statement(t) = "commit"
<1> DEFINE P == Program(call[t].op)
<1>1. Statement(t) = IF pc[t] <= Len(P) THEN P[pc[t]] ELSE "commit"
  BY DEF Statement, Open
<1>2. CASE call[t].op = "create"
  <2>1. /\ Len(P) = 15 /\ P[1] = "roles" /\ P[2] = "resource" /\ P[3] = "user"
        /\ P[4] = "ownerPolicy" /\ P[5] = "ownerLink" /\ P[6] = "ownerRole"
        /\ P[7] = "ownerMetadata" /\ P[8] = "grant" /\ P[9] = "binding"
        /\ P[10] = "ownerContainer" /\ P[11] = "adminPolicy" /\ P[12] = "adminLink"
        /\ P[13] = "adminRole" /\ P[14] = "adminMetadata" /\ P[15] = "adminContainer"
    <3>1. P = Program("create")
      BY <1>2
    <3> HIDE DEF P
    <3> QED
      BY <3>1 DEF Program, BindOwner, BindAdmin
  <2> HIDE DEF P
  <2> QED
    BY <1>1, <1>2, <2>1
<1>3. CASE call[t].op = "addOwner"
  <2>1. /\ Len(P) = 9 /\ P[1] = "target" /\ P[2] = "user" /\ P[3] = "ownerPolicy"
        /\ P[4] = "ownerLink" /\ P[5] = "ownerRole" /\ P[6] = "ownerMetadata"
        /\ P[7] = "grant" /\ P[8] = "binding" /\ P[9] = "ownerContainer"
    <3>1. P = Program("addOwner")
      BY <1>3
    <3> HIDE DEF P
    <3> QED
      BY <3>1 DEF Program, BindOwner, BindAdmin
  <2> HIDE DEF P
  <2> QED
    BY <1>1, <1>3, <2>1
<1>4. CASE call[t].op \in Deleting
  <2>1. /\ Len(P) = 2
        /\ call[t].op = "removeOwner" => P[1] = "deleteGrants" /\ P[2] = "deleteBindings"
        /\ call[t].op = "delete" => P[1] = "deletePolicies" /\ P[2] = "deleteResource"
        /\ call[t].op = "genericDelete" => P[1] = "protection" /\ P[2] = "deleteResource"
    BY <1>4 DEF Program, Deleting
  <2> HIDE DEF P
  <2> QED
    BY <1>1, <1>4, <2>1 DEF Deleting
<1> QED
  BY <1>2, <1>3, <1>4 DEF Request, Operations, Deleting

Upserts == {"user", "ownerPolicy", "ownerLink", "ownerRole", "ownerMetadata", "grant", "binding",
            "ownerContainer", "adminPolicy", "adminLink", "adminRole", "adminMetadata",
            "adminContainer"}

\* Those that run before the transaction has a policy.
Early == {"user", "ownerPolicy"}

\* Which transactions run a statement, and when.
LEMMA WhoRuns ==
    ASSUME Control, NEW t \in Tx, Open(t)
    PROVE  /\ call[t] \in Request /\ pc[t] \in 1 .. 16
           /\ Statement(t) = "roles" => call[t].op = "create" /\ pc[t] = 1
           /\ Statement(t) = "resource" => call[t].op = "create" /\ pc[t] = 2
           /\ Statement(t) = "target" => call[t].op = "addOwner" /\ pc[t] = 1
           /\ Statement(t) \in Upserts =>
                 \/ call[t].op = "create" /\ pc[t] \in 3 .. 15
                 \/ call[t].op = "addOwner" /\ pc[t] \in 2 .. 9
           /\ Statement(t) = "user" =>
                 \/ call[t].op = "create" /\ pc[t] = 3
                 \/ call[t].op = "addOwner" /\ pc[t] = 2
           /\ Statement(t) \in Upserts \ Early =>
                 \/ call[t].op = "create" /\ pc[t] \in 5 .. 15
                 \/ call[t].op = "addOwner" /\ pc[t] \in 4 .. 9
           /\ Statement(t) = "protection" => call[t].op = "genericDelete" /\ pc[t] = 1
           /\ Statement(t) \in Deletes => call[t].op \in Deleting /\ pc[t] \in {1, 2}
           /\ Statement(t) # "none"
<1>1. call[t] \in Request /\ pc[t] \in 1 .. 16
  BY DEF Control, Typed, Shaped, Open
<1>2. pc[t] \in {1, 2, 3, 4, 5, 6, 7, 8, 9, 10, 11, 12, 13, 14, 15, 16}
  BY <1>1
<1>3. CASE call[t].op = "create"
  BY <1>1, <1>2, <1>3, StatementAt DEF Upserts, Early, Deletes
<1>4. CASE call[t].op = "addOwner"
  <2>1. pc[t] \in {1, 2, 3, 4, 5, 6, 7, 8, 9} \/ pc[t] > 9
    BY <1>2
  <2> QED
    BY <1>1, <1>4, <2>1, StatementAt DEF Upserts, Early, Deletes
<1>5. CASE call[t].op \in Deleting
  <2>1. pc[t] \in {1, 2} \/ pc[t] > 2
    BY <1>2
  <2> QED
    BY <1>1, <1>5, <2>1, StatementAt DEF Upserts, Early, Deletes, Deleting
<1> QED
  BY <1>1, <1>3, <1>4, <1>5 DEF Request, Operations, Deleting

\* The statements of BindOwner and BindAdmin.
LEMMA UpsertStatements ==
    {BindOwner[i] : i \in DOMAIN BindOwner} \cup {BindAdmin[i] : i \in DOMAIN BindAdmin}
        = Upserts
BY DEF BindOwner, BindAdmin, Upserts

----------------------------------------------------------------------------
(* Control.                                                                *)

\* A step of t leaves the others where they are; a commit may take rows from
\* what they still have to delete.
Elsewhere(t) ==
    \A s \in Tx \ {t} :
        /\ pc'[s] = pc[s] /\ call'[s] = call[s] /\ id'[s] = id[s] /\ phase'[s] = phase[s]
        /\ ins'[s] = ins[s] /\ del'[s] = del[s] /\ upd'[s] = upd[s] /\ batch'[s] = batch[s]
        /\ todo'[s] \subseteq todo[s]

LEMMA ControlFrom ==
    ASSUME Control, NEW t \in Tx, Elsewhere(t), Typed', Shaped(t)', Resolved(t)'
    PROVE  Control'
<1>1. ASSUME NEW s \in Tx \ {t} PROVE Shaped(s)' /\ Resolved(s)'
  <2>1. Statement(s)' = Statement(s)
    BY DEF Elsewhere, Statement, Open
  <2> QED
    BY <2>1 DEF Elsewhere, Control, Shaped, Resolved
<1> QED
  BY <1>1 DEF Control

\* A transaction that ends leaves nothing behind.
LEMMA EndControl ==
    ASSUME Control, NEW t \in Tx, End(t), db' \subseteq Row,
           todo' \in [Tx -> SUBSET Row], todo'[t] = {}, \A s \in Tx \ {t} : todo'[s] \subseteq todo[s]
    PROVE  Control' /\ Elsewhere(t)
<1>1. Elsewhere(t)
  BY DEF Control, Typed, End, Elsewhere
<1>2. Typed'
  <2>1. id' \in [Tx -> [resource : ResourceRow \cup {None}, policy : PolicyRow \cup {None}]]
    BY DEF Control, Typed, End
  <2>2. /\ call' \in [Tx -> Request \cup {None}] /\ pc' \in [Tx -> 0 .. 16]
        /\ phase' \in [Tx -> {"start", "rows", "cascade"}]
    BY DEF Control, Typed, End
  <2>3. /\ ins' \in [Tx -> SUBSET Row] /\ del' \in [Tx -> SUBSET Row]
        /\ upd' \in [Tx -> SUBSET Row] /\ batch' \in [Tx -> SUBSET Row]
    BY DEF Control, Typed, End
  <2> QED
    BY <2>1, <2>2, <2>3 DEF Typed
<1>3. /\ pc'[t] = 0 /\ ins'[t] = {} /\ del'[t] = {} /\ upd'[t] = {} /\ batch'[t] = {}
      /\ phase'[t] = "start"
  BY DEF Control, Typed, End
<1>4. Shaped(t)' /\ Resolved(t)'
  BY <1>3 DEF Shaped, Resolved
<1> QED
  BY <1>1, <1>2, <1>4, ControlFrom

LEMMA RollbackControl ==
    ASSUME Control, NEW t \in Tx, Rollback(t)
    PROVE  Control' /\ Elsewhere(t)
<1>1. db' \subseteq Row /\ todo' \in [Tx -> SUBSET Row] /\ todo'[t] = {}
      /\ \A s \in Tx \ {t} : todo'[s] \subseteq todo[s]
  BY DEF Rollback, Control, Typed
<1> QED
  BY <1>1, EndControl DEF Rollback

LEMMA CommitControl ==
    ASSUME Control, NEW t \in Tx, End(t), db' = Visible(t),
           todo' = [s \in Tx |-> IF s = t THEN {} ELSE todo[s] \ del[t]]
    PROVE  Control' /\ Elsewhere(t)
<1>1. db' \subseteq Row
  BY DEF Visible, Control, Typed
<1>2. todo' \in [Tx -> SUBSET Row] /\ todo'[t] = {}
      /\ \A s \in Tx \ {t} : todo'[s] \subseteq todo[s]
  BY DEF Control, Typed
<1> QED
  BY <1>1, <1>2, EndControl

\* Where a statement in the middle of an inserting transaction leaves it.
LEMMA AdvanceControl ==
    ASSUME Control, NEW t \in Tx, Open(t), Advance(t),
           \/ call[t].op = "create" /\ pc[t] \in 1 .. 15
           \/ call[t].op = "addOwner" /\ pc[t] \in 1 .. 9,
           NEW M \in SUBSET Row, ins' = [ins EXCEPT ![t] = M],
           NEW U \in SUBSET Row, upd' = [upd EXCEPT ![t] = U],
           NEW r \in ResourceRow \cup {None}, NEW n \in PolicyRow \cup {None},
           id' = [id EXCEPT ![t] = [resource |-> r, policy |-> n]],
           UNCHANGED <<db, call, del, statement>>,
           /\ (call[t].op = "create" /\ pc[t] >= 2) \/ call[t].op = "addOwner"
                 => r \in ResourceRow
           /\ (call[t].op = "create" /\ pc[t] >= 4) \/ (call[t].op = "addOwner" /\ pc[t] >= 3)
                 => n \in PolicyRow
    PROVE  Control' /\ Elsewhere(t)
<1>0. call[t] \in Request /\ pc[t] \in 1 .. 15
  BY WhoRuns
<1>1. Elsewhere(t)
  BY DEF Advance, Control, Typed, Elsewhere, statement
<1>2. pc' \in [Tx -> 0 .. 16] /\ pc'[t] = pc[t] + 1
  BY <1>0 DEF Advance, Control, Typed
<1>3. Typed'
  BY <1>2 DEF Control, Typed, statement
<1>4. ins'[t] = M /\ upd'[t] = U /\ id'[t].resource = r /\ id'[t].policy = n
  BY DEF Control, Typed
<1>5. Shaped(t)'
  BY <1>0, <1>2, <1>4 DEF Control, Shaped, statement, Inserting, Deleting, Open
<1>6. Resolved(t)'
  BY <1>0, <1>2, <1>4 DEF Resolved
<1> QED
  BY <1>1, <1>3, <1>5, <1>6, ControlFrom

\* What an upsert offers, finds and returns is typed.
LEMMA OfferedRows ==
    ASSUME Control, NEW t \in Tx, Open(t), Statement(t) \in Upserts
    PROVE  /\ Offered(t) \subseteq Row
           /\ Statement(t) = "ownerPolicy" => Offered(t) = {Policy("owner", call[t].path, t)}
           /\ Statement(t) = "adminPolicy" => Offered(t) = {Policy("admin", call[t].path, t)}
<1>1. /\ call[t].path \in Path /\ call[t].user \in User
      /\ id[t].resource \in ResourceRow
      /\ Statement(t) \notin Early => id[t].policy \in PolicyRow
  BY WhoRuns DEF Control, Resolved, Request, Open
<1>2. ASSUME NEW x \in Visible(t), x.tab = "resource" PROVE x \in ResourceRow
  <2>1. x \in Row
    BY DEF Visible, Control, Typed
  <2> QED
    BY <1>2, <2>1 DEF Row, PolicyRow, ResourceRow
<1>3. CASE Statement(t) \in {"ownerPolicy", "adminPolicy"}
  BY <1>1, <1>3, WrittenRows, RowFacts DEF Offered
<1>4. CASE Statement(t) \in {"ownerLink", "adminLink", "ownerRole", "adminRole"}
  BY <1>1, <1>4, WrittenRows DEF Offered, Early
<1>5. CASE Statement(t) \in {"ownerMetadata", "adminMetadata"}
  BY <1>1, <1>5, WrittenRows DEF Offered, Early
<1>6. CASE Statement(t) \in {"grant", "binding"}
  BY <1>1, <1>6, WrittenRows DEF Offered, Early
<1>7. CASE Statement(t) \in {"ownerContainer", "adminContainer"}
  BY <1>1, <1>2, <1>7, WrittenRows DEF Offered, Early
<1>8. CASE Statement(t) = "user"
  BY <1>1, <1>8, WrittenRows DEF Offered
<1> QED
  BY <1>3, <1>4, <1>5, <1>6, <1>7, <1>8 DEF Upserts

LEMMA ReturnedIds ==
    ASSUME Control, NEW t \in Tx, NEW x \in Row, id' = Returned(t, x)
    PROVE  \E n \in PolicyRow \cup {None} :
              /\ id' = [id EXCEPT ![t] = [resource |-> id[t].resource, policy |-> n]]
              /\ IF x.tab = "policy" THEN n = x /\ n \in PolicyRow ELSE n = id[t].policy
<1>1. x.tab = "policy" => x \in PolicyRow
  BY DEF Row, PolicyRow, ResourceRow
<1>2. id[t] \in [resource : ResourceRow \cup {None}, policy : PolicyRow \cup {None}]
  BY DEF Control, Typed
<1>3. id[t] = [resource |-> id[t].resource, policy |-> id[t].policy]
      /\ id[t].policy \in PolicyRow \cup {None}
  BY <1>2
<1>4. CASE x.tab = "policy"
  <2>0. [id[t] EXCEPT !.policy = x] = [resource |-> id[t].resource, policy |-> x]
    BY <1>2
  <2>1. id' = [id EXCEPT ![t] = [id[t] EXCEPT !.policy = x]]
    BY <1>4 DEF Returned
  <2>2. id' = [id EXCEPT ![t] = [resource |-> id[t].resource, policy |-> x]]
    BY <2>0, <2>1
  <2> QED
    BY <1>1, <1>4, <2>2
<1>5. CASE x.tab # "policy"
  <2>1. id' = [id EXCEPT ![t] = [resource |-> id[t].resource, policy |-> id[t].policy]]
    BY <1>3, <1>5 DEF Returned, Control, Typed
  <2> QED
    BY <1>3, <1>5, <2>1
<1> QED
  BY <1>4, <1>5

\* Upserts.
LEMMA UpsertControl ==
    ASSUME Control, NEW t \in Tx, Open(t), Upsert(t)
    PROVE  Control' /\ Elsewhere(t)
<1>0. Statement(t) \in Upserts
  BY UpsertStatements DEF Upsert
<1>1. CASE Rollback(t)
  BY <1>1, RollbackControl
<1>2. /\ \/ call[t].op = "create" /\ pc[t] \in 3 .. 15
         \/ call[t].op = "addOwner" /\ pc[t] \in 2 .. 9
      /\ Statement(t) = "user" =>
            ~ ((call[t].op = "create" /\ pc[t] >= 4) \/ (call[t].op = "addOwner" /\ pc[t] >= 3))
      /\ Statement(t) \notin Early =>
            \/ call[t].op = "create" /\ pc[t] \in 5 .. 15
            \/ call[t].op = "addOwner" /\ pc[t] \in 4 .. 9
  BY <1>0, WhoRuns
<1>a. \/ call[t].op = "create" /\ pc[t] \in 1 .. 15
      \/ call[t].op = "addOwner" /\ pc[t] \in 1 .. 9
  BY <1>2
<1>3. /\ id[t].resource \in ResourceRow
      /\ Statement(t) \notin Early => id[t].policy \in PolicyRow
  BY <1>2 DEF Control, Resolved, Open
<1>4. ASSUME NEW r \in Offered(t), NEW x \in Row, SameKey(r, x), id' = Returned(t, x), Advance(t),
             NEW M \in SUBSET Row, ins' = [ins EXCEPT ![t] = M],
             NEW U \in SUBSET Row, upd' = [upd EXCEPT ![t] = U],
             UNCHANGED <<db, call, del, statement>>
      PROVE  Control' /\ Elsewhere(t)
  <2>1. PICK n \in PolicyRow \cup {None} :
           /\ id' = [id EXCEPT ![t] = [resource |-> id[t].resource, policy |-> n]]
           /\ IF x.tab = "policy" THEN n = x /\ n \in PolicyRow ELSE n = id[t].policy
    BY <1>4, ReturnedIds
  <2>2. Statement(t) = "ownerPolicy" => x.tab = "policy"
    BY <1>0, <1>4, OfferedRows DEF SameKey, Policy
  <2>3. n \in PolicyRow \/ Statement(t) = "user"
    BY <1>3, <2>1, <2>2 DEF Early
  <2>4. id' = [id EXCEPT ![t] = [resource |-> id[t].resource, policy |-> n]]
    BY <2>1
  <2>5. id[t].resource \in ResourceRow
    BY <1>3
  <2> QED
    BY <1>a, <1>2, <1>4, <2>3, <2>4, <2>5, AdvanceControl
<1>5. /\ ins = [ins EXCEPT ![t] = ins[t]] /\ upd = [upd EXCEPT ![t] = upd[t]]
      /\ ins[t] \in SUBSET Row /\ upd[t] \in SUBSET Row
  BY DEF Control, Typed
<1>6. ASSUME NEW r \in Offered(t), NEW x \in Existing(t, r),
             upd' = IF Statement(t) \in Updating THEN [upd EXCEPT ![t] = @ \cup {x}] ELSE upd,
             id' = Returned(t, x), Advance(t), UNCHANGED <<db, call, ins, del, statement, missed>>
      PROVE  Control' /\ Elsewhere(t)
  <2>1. x \in Row /\ SameKey(r, x)
    BY DEF Existing, Visible, Control, Typed
  <2>2. PICK U \in SUBSET Row : upd' = [upd EXCEPT ![t] = U]
    <3>1. upd[t] \cup {x} \in SUBSET Row
      BY <1>5, <2>1
    <3> QED
      BY <1>5, <1>6, <3>1
  <2>3. ins' = [ins EXCEPT ![t] = ins[t]]
    BY <1>5, <1>6
  <2> QED
    BY <1>4, <1>5, <1>6, <2>1, <2>2, <2>3
<1>7. ASSUME NEW r \in Offered(t), ins' = [ins EXCEPT ![t] = @ \cup {r}],
             id' = Returned(t, r), Advance(t), UNCHANGED <<db, call, del, upd, statement, missed>>
      PROVE  Control' /\ Elsewhere(t)
  <2>1. r \in Row /\ SameKey(r, r)
    BY <1>0, OfferedRows, RowFacts
  <2>2. ins[t] \cup {r} \in SUBSET Row /\ ins' = [ins EXCEPT ![t] = ins[t] \cup {r}]
    BY <1>5, <1>7, <2>1
  <2>3. upd' = [upd EXCEPT ![t] = upd[t]]
    BY <1>5, <1>7
  <2> QED
    BY <1>4, <1>5, <1>7, <2>1, <2>2, <2>3
<1>8. ASSUME Offered(t) = {}, Advance(t), UNCHANGED <<db, call, own, id, statement, missed>>
      PROVE  Control' /\ Elsewhere(t)
  <2>1. id[t].policy \in PolicyRow
    <3>1. Statement(t) # "user"
      BY <1>8 DEF Offered
    <3> QED
      BY <1>0, <1>3, <1>8, <3>1, OfferedRows DEF Early
  <2>2. id' = [id EXCEPT ![t] = [resource |-> id[t].resource, policy |-> id[t].policy]]
    BY <1>8 DEF Control, Typed
  <2>3. ins' = [ins EXCEPT ![t] = ins[t]] /\ upd' = [upd EXCEPT ![t] = upd[t]]
        /\ ins[t] \in SUBSET Row /\ upd[t] \in SUBSET Row
    BY <1>5, <1>8 DEF own
  <2>4. UNCHANGED <<db, call, del, statement>>
    BY <1>8 DEF own
  <2>5. id[t].resource \in ResourceRow /\ id[t].policy \in PolicyRow
    BY <1>3, <2>1
  <2> QED
    BY <1>a, <1>8, <2>2, <2>3, <2>4, <2>5, AdvanceControl
<1> QED
  BY <1>1, <1>6, <1>7, <1>8 DEF Upsert

\* The other statements of a create or of AddOwner.
LEMMA LookupControl ==
    ASSUME Control, NEW t \in Tx, Open(t), EnsureRoles(t) \/ InsertResource(t) \/ ResolveTarget(t)
    PROVE  Control' /\ Elsewhere(t)
<1>0. /\ ins = [ins EXCEPT ![t] = ins[t]] /\ upd = [upd EXCEPT ![t] = upd[t]]
      /\ ins[t] \in SUBSET Row /\ upd[t] \in SUBSET Row
      /\ id[t] \in [resource : ResourceRow \cup {None}, policy : PolicyRow \cup {None}]
      /\ id = [id EXCEPT ![t] = id[t]]
  BY DEF Control, Typed
<1>1. /\ id[t].resource \in ResourceRow \cup {None} /\ id[t].policy \in PolicyRow \cup {None}
      /\ id = [id EXCEPT ![t] = [resource |-> id[t].resource, policy |-> id[t].policy]]
      /\ \A r : [id[t] EXCEPT !.resource = r] = [resource |-> r, policy |-> id[t].policy]
  BY <1>0
<1>2. CASE Rollback(t)
  BY <1>2, RollbackControl
<1>3. CASE EnsureRoles(t)
  <2>1. call[t].op = "create" /\ pc[t] = 1
    BY <1>3, WhoRuns DEF EnsureRoles
  <2>2. /\ Advance(t) /\ UNCHANGED <<db, call, del, statement>>
        /\ ins' = [ins EXCEPT ![t] = ins[t]] /\ upd' = [upd EXCEPT ![t] = upd[t]]
        /\ id' = [id EXCEPT ![t] = [resource |-> id[t].resource, policy |-> id[t].policy]]
    BY <1>0, <1>1, <1>3 DEF EnsureRoles, own
  <2>3. /\ \/ call[t].op = "create" /\ pc[t] \in 1 .. 15
           \/ call[t].op = "addOwner" /\ pc[t] \in 1 .. 9
        /\ (call[t].op = "create" /\ pc[t] >= 2) \/ call[t].op = "addOwner"
              => id[t].resource \in ResourceRow
        /\ ~ ((call[t].op = "create" /\ pc[t] >= 4) \/ (call[t].op = "addOwner" /\ pc[t] >= 3))
    BY <2>1
  <2> QED
    BY <1>0, <1>1, <2>2, <2>3, AdvanceControl
<1>4. ASSUME InsertResource(t), ~ Rollback(t) PROVE Control' /\ Elsewhere(t)
  <2>1. call[t].op = "create" /\ pc[t] = 2 /\ call[t] \in Request
    BY <1>4, WhoRuns DEF InsertResource
  <2>2. WithContainer(call[t].path) \subseteq Path /\ call[t].path \in Path
    BY <2>1, StatementsAssumption DEF WithContainer, Request
  <2>3. NewRows(t) \in SUBSET Row /\ Resource(call[t].path, t) \in ResourceRow
    BY <2>2, WrittenRows, RowFacts DEF NewRows
  <2>4. /\ Advance(t) /\ UNCHANGED <<db, call, del, statement>>
        /\ ins' = [ins EXCEPT ![t] = NewRows(t)] /\ upd' = [upd EXCEPT ![t] = upd[t]]
        /\ id' = [id EXCEPT ![t] = [id[t] EXCEPT !.resource = Resource(call[t].path, t)]]
    BY <1>0, <1>4 DEF InsertResource
  <2>5. id' = [id EXCEPT ![t] =
                  [resource |-> Resource(call[t].path, t), policy |-> id[t].policy]]
    BY <1>1, <2>4
  <2>6. /\ \/ call[t].op = "create" /\ pc[t] \in 1 .. 15
           \/ call[t].op = "addOwner" /\ pc[t] \in 1 .. 9
        /\ (call[t].op = "create" /\ pc[t] >= 2) \/ call[t].op = "addOwner"
              => Resource(call[t].path, t) \in ResourceRow
        /\ ~ ((call[t].op = "create" /\ pc[t] >= 4) \/ (call[t].op = "addOwner" /\ pc[t] >= 3))
    BY <2>1, <2>3
  <2>7. id[t].policy \in PolicyRow \cup {None} /\ upd[t] \in SUBSET Row
    BY <1>0, <1>1
  <2> QED
    BY <2>3, <2>4, <2>5, <2>6, <2>7, AdvanceControl
<1>5. ASSUME ResolveTarget(t), ~ Rollback(t) PROVE Control' /\ Elsewhere(t)
  <2>1. call[t].op = "addOwner" /\ pc[t] = 1 /\ call[t] \in Request
    BY <1>5, WhoRuns DEF ResolveTarget
  <2>2. PICK r \in Existing(t, Resource(call[t].path, t)) :
           /\ id' = [id EXCEPT ![t] = [id[t] EXCEPT !.resource = r]]
           /\ Advance(t) /\ UNCHANGED <<db, call, own, statement, missed>>
    BY <1>5 DEF ResolveTarget
  <2>3. r \in ResourceRow
    <3>1. r \in Row /\ SameKey(Resource(call[t].path, t), r) /\ call[t].path \in Path
      BY <2>1 DEF Existing, Visible, Control, Typed, Request
    <3> QED
      BY <3>1, KeyFacts
  <2>4. /\ id' = [id EXCEPT ![t] = [resource |-> r, policy |-> id[t].policy]]
        /\ UNCHANGED <<db, call, del, statement>>
        /\ ins' = [ins EXCEPT ![t] = ins[t]] /\ upd' = [upd EXCEPT ![t] = upd[t]]
    BY <1>0, <1>1, <2>2 DEF own
  <2>5. /\ \/ call[t].op = "create" /\ pc[t] \in 1 .. 15
           \/ call[t].op = "addOwner" /\ pc[t] \in 1 .. 9
        /\ (call[t].op = "create" /\ pc[t] >= 2) \/ call[t].op = "addOwner"
              => r \in ResourceRow
        /\ ~ ((call[t].op = "create" /\ pc[t] >= 4) \/ (call[t].op = "addOwner" /\ pc[t] >= 3))
    BY <2>1, <2>3
  <2>6. id[t].policy \in PolicyRow \cup {None} /\ ins[t] \in SUBSET Row /\ upd[t] \in SUBSET Row
    BY <1>0, <1>1
  <2> QED
    BY <2>2, <2>3, <2>4, <2>5, <2>6, AdvanceControl
<1> QED
  BY <1>2, <1>3, <1>4, <1>5

\* Where a step of a DELETE, or of the lookup in front of it, leaves the
\* transaction.
LEMMA DeletingControl ==
    ASSUME Control, NEW t \in Tx, Open(t), call[t].op \in Deleting,
           NEW q \in 1 .. 3, pc' = [pc EXCEPT ![t] = q],
           NEW D \in SUBSET Row, del' = [del EXCEPT ![t] = D],
           NEW T \in SUBSET Row, todo' = [todo EXCEPT ![t] = T],
           NEW B \in SUBSET Row, batch' = [batch EXCEPT ![t] = B],
           NEW f \in {"start", "rows", "cascade"}, phase' = [phase EXCEPT ![t] = f],
           UNCHANGED <<db, call, ins, upd, id>>,
           f # "start" => q = pc[t] /\ Statement(t) \in Deletes,
           f = "start" => T = {} /\ B = {}
    PROVE  Control' /\ Elsewhere(t)
<1>1. Elsewhere(t)
  BY DEF Control, Typed, Elsewhere
<1>2. Typed'
  BY DEF Control, Typed
<1>3. /\ pc'[t] = q /\ del'[t] = D /\ todo'[t] = T /\ batch'[t] = B /\ phase'[t] = f
      /\ call'[t] = call[t] /\ ins'[t] = ins[t] /\ upd'[t] = upd[t] /\ id'[t] = id[t]
  BY DEF Control, Typed
<1>4. q = pc[t] => Statement(t)' = Statement(t)
  BY <1>3 DEF Statement, Open
<1>5. Shaped(t)'
  BY <1>3, <1>4 DEF Control, Shaped, Open, Inserting, Deleting
<1>6. Resolved(t)'
  BY <1>3 DEF Resolved, Deleting
<1> QED
  BY <1>1, <1>2, <1>5, <1>6, ControlFrom

\* What a DELETE looks for is rows.
LEMMA SelectedRows ==
    ASSUME Control, NEW t \in Tx, Statement(t) \in Deletes
    PROVE  Selected(t) \subseteq Row
<1>1. Visible(t) \subseteq Row
  BY DEF Visible, Control, Typed
<1>2. ASSUME NEW m \in Row, m.tab = "generated_policy_metadata" PROVE m.policy \in Row
  BY <1>2, RowFacts DEF Row, PolicyRow, ResourceRow
<1> QED
  BY <1>1, <1>2 DEF Selected, Deletes

LEMMA DeleteControl ==
    ASSUME Control, NEW t \in Tx, Open(t),
           CheckProtection(t) \/ StartDelete(t) \/ DeleteRow(t) \/ FireTriggers(t)
    PROVE  Control' /\ Elsewhere(t)
<1>0. /\ pc = [pc EXCEPT ![t] = pc[t]] /\ del = [del EXCEPT ![t] = del[t]]
      /\ todo = [todo EXCEPT ![t] = todo[t]] /\ batch = [batch EXCEPT ![t] = batch[t]]
      /\ phase = [phase EXCEPT ![t] = phase[t]]
      /\ del[t] \in SUBSET Row /\ todo[t] \in SUBSET Row /\ batch[t] \in SUBSET Row
      /\ phase[t] \in {"start", "rows", "cascade"}
      /\ Visible(t) \in SUBSET Row
  BY DEF Control, Typed, Visible
<1>1. Statement(t) \in Deletes => call[t].op \in Deleting /\ pc[t] \in 1 .. 3 /\ pc[t] + 1 \in 1 .. 3
  BY WhoRuns
<1>2. /\ phase[t] # "start" => Statement(t) \in Deletes
      /\ phase[t] = "start" => todo[t] = {} /\ batch[t] = {}
  BY DEF Control, Shaped
<1>3. CASE Rollback(t)
  BY <1>3, RollbackControl
<1>4. ASSUME CheckProtection(t), ~ Rollback(t) PROVE Control' /\ Elsewhere(t)
  <2>1. call[t].op = "genericDelete" /\ pc[t] = 1 /\ Statement(t) = "protection"
    BY <1>4, WhoRuns DEF CheckProtection
  <2>2. phase[t] = "start" /\ todo[t] = {} /\ batch[t] = {}
    BY <1>2, <2>1 DEF Deletes
  <2>3. /\ pc' = [pc EXCEPT ![t] = 2]
        /\ UNCHANGED <<db, call, ins, upd, id>>
    BY <1>4, <2>1 DEF CheckProtection, Advance, own, statement
  <2>4. /\ del' = [del EXCEPT ![t] = del[t]] /\ todo' = [todo EXCEPT ![t] = {}]
        /\ batch' = [batch EXCEPT ![t] = {}] /\ phase' = [phase EXCEPT ![t] = "start"]
    BY <1>0, <1>4, <2>2 DEF CheckProtection, own, statement
  <2>5. call[t].op \in Deleting
    BY <2>1 DEF Deleting
  <2>6. {} \in SUBSET Row /\ 2 \in 1 .. 3 /\ del[t] \in SUBSET Row
    BY <1>0
  <2> QED
    BY <2>3, <2>4, <2>5, <2>6, DeletingControl
<1>5. CASE StartDelete(t)
  <2>1. Statement(t) \in Deletes /\ phase[t] = "start" /\ Selected(t) \in SUBSET Row
    BY <1>5, SelectedRows DEF StartDelete
  <2>2. /\ pc' = [pc EXCEPT ![t] = pc[t]] /\ del' = [del EXCEPT ![t] = del[t]]
        /\ todo' = [todo EXCEPT ![t] = Selected(t)] /\ batch' = [batch EXCEPT ![t] = batch[t]]
        /\ phase' = [phase EXCEPT ![t] = "rows"] /\ UNCHANGED <<db, call, ins, upd, id>>
    BY <1>0, <1>5 DEF StartDelete, own
  <2> QED
    BY <1>0, <1>1, <2>1, <2>2, DeletingControl
<1>6. CASE DeleteRow(t)
  <2>1. PICK x \in todo[t] :
           /\ del' = [del EXCEPT ![t] = del[t] \cup {x}]
           /\ todo' = [todo EXCEPT ![t] = todo[t] \ {x}]
           /\ batch' = IF phase[t] = "rows" THEN [batch EXCEPT ![t] = batch[t] \cup {x}] ELSE batch
    BY <1>6 DEF DeleteRow
  <2>2. PICK B \in SUBSET Row : batch' = [batch EXCEPT ![t] = B]
    <3>1. batch[t] \cup {x} \in SUBSET Row
      BY <1>0
    <3> QED
      BY <1>0, <2>1, <3>1
  <2>3. del[t] \cup {x} \in SUBSET Row /\ todo[t] \ {x} \in SUBSET Row
    BY <1>0
  <2>4. /\ pc' = [pc EXCEPT ![t] = pc[t]] /\ phase' = [phase EXCEPT ![t] = phase[t]]
        /\ phase[t] # "start" /\ UNCHANGED <<db, call, ins, upd, id>>
    BY <1>0, <1>6 DEF DeleteRow
  <2> QED
    BY <1>0, <1>1, <1>2, <2>1, <2>2, <2>3, <2>4, DeletingControl
<1>7. CASE FireTriggers(t)
  <2>1. /\ phase[t] # "start" /\ todo[t] = {} /\ UNCHANGED <<db, call, ins, upd, id>>
        /\ del' = [del EXCEPT ![t] = del[t]]
    BY <1>0, <1>7 DEF FireTriggers, own
  <2>2. ASSUME todo' = [todo EXCEPT ![t] = Dependents(t)], phase' = [phase EXCEPT ![t] = "cascade"],
               UNCHANGED <<pc, batch>>
        PROVE  Control' /\ Elsewhere(t)
    <3>1. Dependents(t) \in SUBSET Row
      BY <1>0 DEF Dependents
    <3>2. pc' = [pc EXCEPT ![t] = pc[t]] /\ batch' = [batch EXCEPT ![t] = batch[t]]
      BY <1>0, <2>2
    <3> QED
      BY <1>0, <1>1, <1>2, <2>1, <2>2, <3>1, <3>2, DeletingControl
  <2>3. ASSUME todo' = [todo EXCEPT ![t] = Children(t)], phase' = [phase EXCEPT ![t] = "rows"],
               batch' = [batch EXCEPT ![t] = {}], UNCHANGED pc
        PROVE  Control' /\ Elsewhere(t)
    <3>1. Children(t) \in SUBSET Row
      BY <1>0 DEF Children
    <3>2. pc' = [pc EXCEPT ![t] = pc[t]]
      BY <1>0, <2>3
    <3> QED
      BY <1>0, <1>1, <1>2, <2>1, <2>3, <3>1, <3>2, DeletingControl
  <2>4. ASSUME phase' = [phase EXCEPT ![t] = "start"], batch' = [batch EXCEPT ![t] = {}],
               Advance(t), UNCHANGED todo
        PROVE  Control' /\ Elsewhere(t)
    <3>1. pc' = [pc EXCEPT ![t] = pc[t] + 1] /\ todo' = [todo EXCEPT ![t] = {}]
      BY <1>0, <2>1, <2>4 DEF Advance
    <3> QED
      BY <1>0, <1>1, <1>2, <2>1, <2>4, <3>1, DeletingControl
  <2> QED
    BY <1>7, <2>2, <2>3, <2>4 DEF FireTriggers
<1> QED
  BY <1>3, <1>4, <1>5, <1>6, <1>7

----------------------------------------------------------------------------
(* Locks.                                                                  *)

\* Who has inserted or deleted anything is open, and nobody does both.
LEMMA Holders ==
    ASSUME Control, NEW s \in Tx
    PROVE  /\ ins[s] \cup del[s] \cup upd[s] # {} => Open(s)
           /\ ins[s] # {} => del[s] = {}
<1>1. pc[s] # 0 => call[s].op \in Inserting \cup Deleting
  BY DEF Control, Shaped, Request, Operations, Inserting, Deleting
<1> QED
  BY <1>1 DEF Control, Shaped, Open

\* The end without a commit: the locks are gone and with them the rows.
LEMMA RollbackLocked ==
    ASSUME IndInv, NEW t \in Tx, Rollback(t)
    PROVE  IndInv'
<1>1. Control' /\ Elsewhere(t)
  BY RollbackControl DEF IndInv
<1>2. /\ ins'[t] = {} /\ del'[t] = {} /\ todo'[t] = {} /\ phase'[t] = "start" /\ db' = db
      /\ \A s \in Tx \ {t} : todo'[s] = todo[s]
  BY DEF Rollback, End, IndInv, Control, Typed
<1>3. KeysUnique' /\ ReferencesHold'
  BY <1>2 DEF IndInv, Locked, KeysUnique, ReferencesHold
<1>4. InsertedUnique' /\ InsertedFresh' /\ InsertedHold'
  BY <1>1, <1>2 DEF Elsewhere, IndInv, Locked, InsertedUnique, InsertedFresh, InsertedHold
<1>5. InsertedApart' /\ ReferencesKept'
  BY <1>1, <1>2 DEF Elsewhere, IndInv, Locked, InsertedApart, ReferencesKept
<1>6. CascadesPending' /\ CascadeIsFlat'
  BY <1>1, <1>2 DEF Elsewhere, IndInv, Locked, CascadesPending, CascadeIsFlat
<1> QED
  BY <1>1, <1>3, <1>4, <1>5, <1>6 DEF IndInv, Locked

\* The commit: what has been deleted is referred to by nothing that stays.
LEMMA CommitLocked ==
    ASSUME IndInv, NEW t \in Tx, Statement(t) = "commit", End(t), db' = Visible(t),
           todo' = [s \in Tx |-> IF s = t THEN {} ELSE todo[s] \ del[t]]
    PROVE  IndInv'
<1>1. Control' /\ Elsewhere(t)
  BY CommitControl DEF IndInv
<1>2. /\ ins'[t] = {} /\ del'[t] = {} /\ todo'[t] = {} /\ phase'[t] = "start"
      /\ db' = (db \ del[t]) \cup ins[t]
      /\ \A s \in Tx \ {t} : todo'[s] = todo[s] \ del[t]
  BY DEF End, Visible, IndInv, Control, Typed
<1>3. /\ phase[t] = "start"
      /\ ins[t] # {} => del[t] = {}
  BY Holders DEF IndInv, Control, Shaped, Deletes
<1>4. KeysUnique'
  BY <1>2, RowFacts
     DEF IndInv, Locked, KeysUnique, InsertedFresh, InsertedUnique
<1>5. ReferencesHold'
  <2>1. ASSUME NEW r \in db \ del[t] PROVE Refs(r) \subseteq db \ del[t]
    BY <1>3, <2>1 DEF IndInv, Locked, ReferencesHold, CascadesPending
  <2>2. ASSUME NEW r \in ins[t] PROVE Refs(r) \subseteq (db \ del[t]) \cup ins[t]
    BY <1>3, <2>2 DEF IndInv, Locked, InsertedHold
  <2> QED
    BY <1>2, <2>1, <2>2 DEF ReferencesHold
<1>6. InsertedUnique' /\ InsertedApart' /\ ReferencesKept'
  BY <1>1, <1>2
     DEF Elsewhere, IndInv, Locked, InsertedUnique, InsertedApart, ReferencesKept
<1>7. InsertedFresh'
  BY <1>1, <1>2 DEF Elsewhere, IndInv, Locked, InsertedFresh, InsertedApart
<1>8. InsertedHold'
  BY <1>1, <1>2 DEF Elsewhere, IndInv, Locked, InsertedHold, ReferencesKept
<1>9. CascadesPending' /\ CascadeIsFlat'
  <2>1. ASSUME NEW s \in Tx \ {t}, NEW y \in db' \ del[s]
        PROVE  \/ Refs(y) \cap del[s] = {}
               \/ phase[s] = "rows" /\ Refs(y) \cap del[s] \subseteq batch[s]
               \/ phase[s] = "cascade" /\ y \in todo'[s]
    <3>1. CASE y \in ins[t]
      BY <3>1 DEF IndInv, Locked, ReferencesKept
    <3>2. CASE y \in db \ del[t]
      BY <1>2, <3>2 DEF IndInv, Locked, CascadesPending
    <3> QED
      BY <1>2, <3>1, <3>2
  <2>2. CascadesPending'
    BY <1>1, <1>2, <2>1 DEF Elsewhere, CascadesPending
  <2>3. CascadeIsFlat'
    BY <1>1, <1>2 DEF Elsewhere, IndInv, Locked, CascadeIsFlat
  <2> QED
    BY <2>2, <2>3
<1> QED
  BY <1>1, <1>4, <1>5, <1>6, <1>7, <1>8, <1>9 DEF IndInv, Locked

\* An insert that waits for nobody.
LEMMA InsertLocked ==
    ASSUME IndInv, NEW t \in Tx, Control', Elsewhere(t), UNCHANGED <<db, del, statement>>,
           del[t] = {}, NEW N \in SUBSET Row, ins'[t] \subseteq ins[t] \cup N,
           \A r \in N : /\ WaitsToInsert(t, r) = {} /\ Existing(t, r) = {}
                        /\ Refs(r) \subseteq Visible(t),
           \A r, x \in N : SameKey(r, x) => r = x,
           \A r \in ins'[t] : Refs(r) \subseteq db \cup ins'[t]
    PROVE  IndInv'
<1>0. ASSUME NEW r \in N
      PROVE  /\ \A x \in db \cup ins[t] : ~ SameKey(r, x)
             /\ \A s \in Tx \ {t} : /\ \A x \in ins[s] : ~ SameKey(r, x)
                                    /\ Refs(r) \cap del[s] = {}
  <2>1. \A x \in db \cup ins[t] : ~ SameKey(r, x)
    BY DEF Existing, Visible
  <2>2. ASSUME NEW s \in Tx \ {t}
        PROVE  (\A x \in ins[s] : ~ SameKey(r, x)) /\ Refs(r) \cap del[s] = {}
    <3>1. ins[s] \cup del[s] # {} => s \in Others(t)
      BY Holders DEF IndInv, Others
    <3>2. s \notin WaitsToInsert(t, r) /\ Existing(t, r) = {}
      OBVIOUS
    <3> QED
      BY <3>1, <3>2 DEF WaitsToInsert
  <2> QED
    BY <2>1, <2>2
<1>1. KeysUnique' /\ ReferencesHold' /\ CascadesPending' /\ CascadeIsFlat'
  BY DEF IndInv, Locked, KeysUnique, ReferencesHold, CascadesPending, CascadeIsFlat, statement
<1>2. InsertedUnique'
  <2>1. ASSUME NEW r \in ins'[t], NEW x \in ins'[t], SameKey(r, x) PROVE r = x
    BY <1>0, <2>1, RowFacts DEF IndInv, Locked, InsertedUnique
  <2> QED
    BY <2>1 DEF Elsewhere, IndInv, Locked, InsertedUnique
<1>3. InsertedFresh'
  BY <1>0 DEF Elsewhere, IndInv, Locked, InsertedFresh
<1>4. InsertedApart'
  <2>1. ASSUME NEW s \in Tx \ {t}, NEW r \in ins'[t], NEW x \in ins[s] PROVE ~ SameKey(r, x)
    BY <1>0, <2>1 DEF IndInv, Locked, InsertedApart
  <2> QED
    BY <2>1, RowFacts DEF Elsewhere, IndInv, Locked, InsertedApart
<1>5. InsertedHold'
  BY DEF Elsewhere, IndInv, Locked, InsertedHold
<1>6. ReferencesKept'
  BY <1>0 DEF Elsewhere, IndInv, Locked, ReferencesKept
<1> QED
  BY <1>1, <1>2, <1>3, <1>4, <1>5, <1>6 DEF IndInv, Locked

\* A step that only looks, updates or begins a DELETE.
LEMMA QuietLocked ==
    ASSUME IndInv, NEW t \in Tx, Control', Elsewhere(t), UNCHANGED <<db, ins, del>>,
           \A s \in Tx \ {t} : todo'[s] = todo[s],
           \/ phase'[t] = phase[t] /\ batch'[t] = batch[t] /\ todo'[t] = todo[t]
           \/ phase[t] = "start" /\ phase'[t] = "rows"
    PROVE  IndInv'
<1>1. /\ KeysUnique' /\ ReferencesHold' /\ InsertedUnique' /\ InsertedFresh' /\ InsertedApart'
      /\ InsertedHold' /\ ReferencesKept'
  BY DEF IndInv, Locked, KeysUnique, ReferencesHold, InsertedUnique, InsertedFresh,
         InsertedApart, InsertedHold, ReferencesKept
<1>2. CascadesPending' /\ CascadeIsFlat'
  BY DEF Elsewhere, IndInv, Locked, CascadesPending, CascadeIsFlat
<1> QED
  BY <1>1, <1>2 DEF IndInv, Locked

\* A deleted row: whoever refers to it has not been inserted by another.
LEMMA DeleteLocked ==
    ASSUME IndInv, NEW t \in Tx, Control', Elsewhere(t), DeleteRow(t)
    PROVE  IndInv'
<1>1. PICK x \in todo[t] :
         /\ WaitsToDelete(t, x) = {}
         /\ del' = [del EXCEPT ![t] = del[t] \cup {x}]
         /\ todo' = [todo EXCEPT ![t] = todo[t] \ {x}]
         /\ batch' = IF phase[t] = "rows" THEN [batch EXCEPT ![t] = batch[t] \cup {x}] ELSE batch
  BY DEF DeleteRow
<1>2. /\ del'[t] = del[t] \cup {x} /\ todo'[t] = todo[t] \ {x}
      /\ phase[t] = "rows" => batch'[t] = batch[t] \cup {x}
      /\ phase[t] \in {"rows", "cascade"} /\ UNCHANGED <<db, ins, phase>>
      /\ \A s \in Tx \ {t} : todo'[s] = todo[s]
  BY <1>1 DEF DeleteRow, IndInv, Control, Typed
<1>3. ASSUME NEW s \in Tx \ {t}, NEW r \in ins[s] PROVE x \notin Refs(r)
  <2>1. s \in Others(t)
    BY Holders DEF IndInv, Others
  <2> QED
    BY <1>1, <2>1 DEF WaitsToDelete, Shares
<1>4. /\ KeysUnique' /\ ReferencesHold' /\ InsertedUnique' /\ InsertedFresh' /\ InsertedApart'
      /\ InsertedHold'
  BY <1>2 DEF IndInv, Locked, KeysUnique, ReferencesHold, InsertedUnique, InsertedFresh,
              InsertedApart, InsertedHold
<1>5. ReferencesKept'
  BY <1>2, <1>3 DEF Elsewhere, IndInv, Locked, ReferencesKept
<1>6. CascadesPending'
  <2>1. ASSUME NEW y \in db \ del'[t]
        PROVE  \/ Refs(y) \cap del'[t] = {}
               \/ phase[t] = "rows" /\ Refs(y) \cap del'[t] \subseteq batch'[t]
               \/ phase[t] = "cascade" /\ y \in todo'[t]
    <3>1. CASE phase[t] = "rows"
      BY <1>2, <3>1 DEF IndInv, Locked, CascadesPending
    <3>2. CASE phase[t] = "cascade"
      <4>1. x \notin Refs(y)
        <5>1. Refs(x) # {} /\ y \in Row
          BY <3>2 DEF IndInv, Locked, CascadeIsFlat, Control, Typed
        <5> QED
          BY <5>1, RowFacts
      <4> QED
        BY <1>2, <3>2, <4>1 DEF IndInv, Locked, CascadesPending
    <3> QED
      BY <1>2, <3>1, <3>2
  <2> QED
    BY <1>2, <2>1 DEF Elsewhere, IndInv, Locked, CascadesPending
<1>7. CascadeIsFlat'
  BY <1>2 DEF Elsewhere, IndInv, Locked, CascadeIsFlat
<1> QED
  BY <1>4, <1>5, <1>6, <1>7 DEF IndInv, Locked

\* The triggers find every row whose reference has been deleted.
LEMMA TriggersLocked ==
    ASSUME IndInv, NEW t \in Tx, Control', Elsewhere(t), FireTriggers(t)
    PROVE  IndInv'
<1>1. /\ UNCHANGED <<db, ins, del>> /\ todo[t] = {} /\ phase[t] \in {"rows", "cascade"}
      /\ \A s \in Tx \ {t} : todo'[s] = todo[s]
      /\ \/ phase[t] = "rows" /\ phase'[t] = "cascade" /\ todo'[t] = Dependents(t)
         \/ phase[t] = "cascade" /\ phase'[t] = "rows"
         \/ phase[t] = "rows" /\ batch[t] = {} /\ phase'[t] = "start" /\ todo'[t] = {}
         \/ phase[t] = "cascade" /\ phase'[t] = "start" /\ todo'[t] = {}
  BY DEF FireTriggers, own, IndInv, Control, Typed
<1>2. /\ KeysUnique' /\ ReferencesHold' /\ InsertedUnique' /\ InsertedFresh' /\ InsertedApart'
      /\ InsertedHold' /\ ReferencesKept'
  BY <1>1 DEF IndInv, Locked, KeysUnique, ReferencesHold, InsertedUnique, InsertedFresh,
              InsertedApart, InsertedHold, ReferencesKept
<1>3. ASSUME NEW y \in db \ del[t]
      PROVE  \/ Refs(y) \cap del[t] = {}
             \/ phase'[t] = "cascade" /\ y \in todo'[t]
  <2>1. CASE phase[t] = "cascade"
    BY <1>1, <2>1 DEF IndInv, Locked, CascadesPending
  <2>2. CASE phase[t] = "rows"
    <3>1. Refs(y) \cap del[t] \subseteq batch[t]
      BY <1>1, <2>2 DEF IndInv, Locked, CascadesPending
    <3> QED
      BY <1>1, <2>2, <3>1 DEF Dependents, Visible
  <2> QED
    BY <1>1, <2>1, <2>2
<1>4. CascadesPending'
  BY <1>1, <1>3 DEF Elsewhere, IndInv, Locked, CascadesPending
<1>5. CascadeIsFlat'
  BY <1>1 DEF Elsewhere, IndInv, Locked, CascadeIsFlat, Dependents
<1> QED
  BY <1>2, <1>4, <1>5 DEF IndInv, Locked

\* Resources.
LEMMA InsertResourceLocked ==
    ASSUME IndInv, NEW t \in Tx, Open(t), InsertResource(t), ~ Rollback(t)
    PROVE  IndInv'
<1>1. Control' /\ Elsewhere(t)
  BY LookupControl DEF IndInv
<1>2. call[t].op = "create" /\ call[t] \in Request
  BY WhoRuns DEF IndInv, InsertResource
<1>3. /\ WithContainer(call[t].path) \subseteq Path
      /\ del[t] = {}
  BY <1>2, StatementsAssumption
     DEF WithContainer, Request, IndInv, Control, Shaped, Open, Inserting
<1>4. /\ \A r \in NewRows(t) : WaitsToInsert(t, r) = {} /\ Existing(t, r) = {}
      /\ ins'[t] = NewRows(t) /\ UNCHANGED <<db, del, statement>>
  BY DEF InsertResource, IndInv, Control, Typed
<1>5. \A r \in NewRows(t) : r \in ResourceRow /\ r \in Row /\ Refs(r) = {}
  BY <1>3, WrittenRows, RowFacts DEF NewRows
<1>6. \A r, x \in NewRows(t) : SameKey(r, x) => r = x
  <2>1. ASSUME NEW p \in Path, NEW q \in Path, SameKey(Resource(p, t), Resource(q, t))
        PROVE  p = q
    BY <2>1, KeyFacts, WrittenRows, RowFacts DEF Resource
  <2> QED
    BY <1>3, <2>1 DEF NewRows
<1> QED
  BY <1>1, <1>3, <1>4, <1>5, <1>6, InsertLocked DEF IndInv

\* The other rows.
LEMMA UpsertLocked ==
    ASSUME IndInv, NEW t \in Tx, Open(t), Upsert(t), ~ Rollback(t)
    PROVE  IndInv'
<1>1. Control' /\ Elsewhere(t)
  BY UpsertControl DEF IndInv
<1>2. Statement(t) \in Upserts
  BY UpsertStatements DEF Upsert
<1>3. del[t] = {} /\ Offered(t) \subseteq Row
  BY <1>2, WhoRuns, OfferedRows DEF IndInv, Control, Shaped, Open, Inserting
<1>4. ASSUME UNCHANGED <<db, ins, del, statement>> PROVE IndInv'
  BY <1>1, <1>4, QuietLocked DEF statement
<1>5. ASSUME NEW r \in Offered(t), WaitsToInsert(t, r) = {}, Existing(t, r) = {},
             Refs(r) \subseteq Visible(t), ins' = [ins EXCEPT ![t] = @ \cup {r}],
             UNCHANGED <<db, del, statement>>
      PROVE  IndInv'
  <2>1. ins'[t] = ins[t] \cup {r} /\ {r} \in SUBSET Row
    BY <1>3, <1>5 DEF IndInv, Control, Typed
  <2>2. \A x \in ins'[t] : Refs(x) \subseteq db \cup ins'[t]
    BY <1>5, <2>1 DEF Visible, IndInv, Locked, InsertedHold
  <2> QED
    BY <1>1, <1>3, <1>5, <2>1, <2>2, InsertLocked
<1> QED
  BY <1>4, <1>5 DEF Upsert, own

----------------------------------------------------------------------------
(* The theorem.                                                            *)

LEMMA InitInv == Init => IndInv
<1> SUFFICES ASSUME Init PROVE IndInv
  OBVIOUS
<1>1. db \subseteq Row /\ Consistent(db)
  BY SeedsAssumption DEF Init
<1>2. call \in [Tx -> Request]
  BY StatementsAssumption DEF Init, Request
<1>3. Typed
  BY <1>1, <1>2 DEF Init, Typed
<1>4. \A t \in Tx : Shaped(t) /\ Resolved(t)
  BY <1>2 DEF Init, Shaped, Resolved, Inserting, Deleting
<1>5. Locked
  BY <1>1 DEF Init, Locked, Consistent, KeysUnique, InsertedUnique, InsertedFresh, InsertedApart,
              ReferencesHold, InsertedHold, ReferencesKept, CascadesPending, CascadeIsFlat
<1> QED
  BY <1>3, <1>4, <1>5 DEF IndInv, Control

\* Every step, whosever it is, keeps the invariant.
LEMMA StepInv == IndInv /\ [Next]_vars => IndInv'
<1> SUFFICES ASSUME IndInv, [Next]_vars PROVE IndInv'
  OBVIOUS
<1>1. CASE UNCHANGED vars
  <2>1. Control'
    BY <1>1 DEF vars, IndInv, Control, Typed, Shaped, Resolved, Statement, Open
  <2>2. Locked'
    BY <1>1 DEF vars, IndInv, Locked, KeysUnique, InsertedUnique, InsertedFresh, InsertedApart,
                ReferencesHold, InsertedHold, ReferencesKept, CascadesPending, CascadeIsFlat
  <2> QED
    BY <2>1, <2>2 DEF IndInv
<1>2. ASSUME NEW t \in Tx, Open(t), Step(t) \/ Fail(t) PROVE IndInv'
  <2>1. CASE Rollback(t)
    BY <2>1, RollbackLocked
  <2>2. ASSUME EnsureRoles(t) \/ ResolveTarget(t), ~ Rollback(t) PROVE IndInv'
    <3>1. Control' /\ Elsewhere(t)
      BY <1>2, <2>2, LookupControl DEF IndInv
    <3>2. UNCHANGED <<db, ins, del, phase, todo, batch>>
      BY <2>2 DEF EnsureRoles, ResolveTarget, own, statement
    <3> QED
      BY <3>1, <3>2, QuietLocked
  <2>3. ASSUME InsertResource(t), ~ Rollback(t) PROVE IndInv'
    BY <1>2, <2>3, InsertResourceLocked
  <2>4. ASSUME Upsert(t), ~ Rollback(t) PROVE IndInv'
    BY <1>2, <2>4, UpsertLocked
  <2>5. ASSUME CheckProtection(t), ~ Rollback(t) PROVE IndInv'
    <3>1. Control' /\ Elsewhere(t)
      BY <1>2, <2>5, DeleteControl DEF IndInv
    <3>2. UNCHANGED <<db, ins, del, phase, todo, batch>>
      BY <2>5 DEF CheckProtection, own, statement
    <3> QED
      BY <3>1, <3>2, QuietLocked
  <2>6. CASE StartDelete(t)
    <3>1. Control' /\ Elsewhere(t)
      BY <1>2, <2>6, DeleteControl DEF IndInv
    <3>2. /\ UNCHANGED <<db, ins, del>> /\ phase[t] = "start" /\ phase'[t] = "rows"
          /\ \A s \in Tx \ {t} : todo'[s] = todo[s]
      BY <2>6 DEF StartDelete, own, IndInv, Control, Typed
    <3> QED
      BY <3>1, <3>2, QuietLocked
  <2>7. CASE DeleteRow(t)
    BY <1>2, <2>7, DeleteControl, DeleteLocked DEF IndInv
  <2>8. CASE FireTriggers(t)
    BY <1>2, <2>8, DeleteControl, TriggersLocked DEF IndInv
  <2>9. ASSUME Commit(t), ~ Rollback(t) PROVE IndInv'
    BY <2>9, CommitLocked DEF Commit
  <2> QED
    BY <1>2, <2>1, <2>2, <2>3, <2>4, <2>5, <2>6, <2>7, <2>8, <2>9 DEF Step, Fail, Victim
<1> QED
  BY <1>1, <1>2 DEF Next

\* Whatever transactions run beside each other, fail or are chosen as victims
\* of a deadlock, keys stay unique and foreign keys hold among the committed
\* rows: the locks that the statements take are enough.
THEOREM Typing == Spec => []TypeOK
<1>1. IndInv => TypeOK
  <2> SUFFICES ASSUME IndInv PROVE TypeOK
    OBVIOUS
  <2>1. Consistent(db)
    BY DEF IndInv, Locked, KeysUnique, ReferencesHold, Consistent
  <2> QED
    BY <2>1 DEF IndInv, Control, Typed, TypeOK, Request
<1> QED
  BY <1>1, InitInv, StepInv, PTL DEF Spec
=============================================================================
