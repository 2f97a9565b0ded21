------------------------------- MODULE Epoch -------------------------------
(***************************************************************************)
(* Invalidation of cached authorization state (internal/authz/epoch):      *)
(* handlers register epoch touches on their transaction, Transactify pops  *)
(* them when it ends and, after a commit, adds them to the global epoch    *)
(* that Redis holds.  Consumers of the epoch are other services; they are  *)
(* modelled by the use the epoch is for: read the epoch, fetch a snapshot, *)
(* keep it under that epoch for as long as the epoch stays the same.       *)
(*                                                                         *)
(* The increments of the per-subject keys travel in the same pipeline as   *)
(* the global one and are not told apart here.                             *)
(***************************************************************************)
EXTENDS Naturals

CONSTANTS
    Proc,        \* request-handling goroutines
    Kinds,       \* the kinds of handlers that run
    MaxVersion,  \* bound on the mutations in a behaviour
    Faults,      \* whether Redis, the database and the process may fail
    None         \* no snapshot

(***************************************************************************)
(* joint:    ownership, access and resource handlers, which touch in the   *)
(*           mutation's own transaction;                                   *)
(* separate: policy, role and group handlers, which mutate, then touch in  *)
(*           a second transaction;                                         *)
(* silent:   user and client handlers, and the parents that POST           *)
(*           /resource?p inserts, which touch nothing.                     *)
(***************************************************************************)
Kind == {"joint", "separate", "silent"}

ASSUME EpochAssumption ==
    Kinds \subseteq Kind /\ MaxVersion \in Nat /\ Faults \in BOOLEAN

Snapshot == [epoch : Nat, version : Nat]

ASSUME NoneAssumption == None \notin Snapshot

VARIABLES
    version,    \* committed mutations of the authorization graph
    epoch,      \* authz:epoch:global in Redis
    pc,         \* per goroutine: where it is
    stage,      \* per goroutine: which of its transactions it is in
    kind,       \* per goroutine: the kind of its handler
    touches,    \* authzEpochTouchRegistry, per open transaction
    pending,    \* per goroutine: popped touches on their way to Redis
    reader,     \* external: a consumer's snapshot under construction
    snapshot,   \* external: the snapshot it keeps
    uncovered   \* auxiliary: a mutation since the last increment will never
                \* be followed by an increment of its own

vars == <<version, epoch, pc, stage, kind, touches, pending, reader, snapshot, uncovered>>

TypeOK ==
    /\ version \in Nat
    /\ epoch \in Nat
    /\ pc \in [Proc -> {"idle", "call", "commit", "sync"}]
    /\ stage \in [Proc -> {"mutate", "bump"}]
    /\ kind \in [Proc -> Kind]
    /\ touches \in [Proc -> {0, 1}]
    /\ pending \in [Proc -> {0, 1}]
    /\ reader \in [pc : {"idle", "epoch", "fetched"}, epoch : Nat, version : Nat]
    /\ snapshot \in Snapshot \cup {None}
    /\ uncovered \in BOOLEAN

Init ==
    /\ version = 0
    /\ epoch = 0
    /\ pc = [pr \in Proc |-> "idle"]
    /\ stage = [pr \in Proc |-> "mutate"]
    /\ kind = [pr \in Proc |-> "joint"]
    /\ touches = [pr \in Proc |-> 0]
    /\ pending = [pr \in Proc |-> 0]
    /\ reader = [pc |-> "idle", epoch |-> 0, version |-> 0]
    /\ snapshot = None
    /\ uncovered = FALSE

\* The handler has committed its mutation and its increment is still to come.
Owes(pr) ==
    \/ pc[pr] = "sync" /\ pending[pr] = 1
    \/ pc[pr] = "sync" /\ stage[pr] = "mutate" /\ kind[pr] = "separate"
    \/ pc[pr] # "idle" /\ stage[pr] = "bump"

----------------------------------------------------------------------------
(* Transactify.                                                            *)

\* A handler opens the transaction of its mutation.
Begin(pr) ==
    /\ pc[pr] = "idle"
    /\ version < MaxVersion
    /\ \E k \in Kinds : kind' = [kind EXCEPT ![pr] = k]
    /\ pc' = [pc EXCEPT ![pr] = "call"]
    /\ stage' = [stage EXCEPT ![pr] = "mutate"]
    /\ UNCHANGED <<version, epoch, touches, pending, reader, snapshot, uncovered>>

\* Mutant: the bump transaction registers nothing.
CallTouchesJointOnly(pr) ==
    /\ pc[pr] = "call"
    /\ touches' = [touches EXCEPT ![pr] = IF kind[pr] = "joint" THEN 1 ELSE 0]
    /\ pc' = [pc EXCEPT ![pr] = "commit"]
    /\ UNCHANGED <<version, epoch, stage, kind, pending, reader, snapshot, uncovered>>

\* Mutant: touches are counted, the global one with the subject's, not marked.
CallCountsTouches(pr) ==
    /\ pc[pr] = "call"
    /\ touches' = [touches EXCEPT ![pr] =
                      IF kind[pr] = "joint" THEN 2 ELSE IF stage[pr] = "bump" THEN 1 ELSE 0]
    /\ pc' = [pc EXCEPT ![pr] = "commit"]
    /\ UNCHANGED <<version, epoch, stage, kind, pending, reader, snapshot, uncovered>>

\* call(tx): a joint handler touches while it mutates, a separate one in its
\* second transaction.
Call(pr) ==
    /\ pc[pr] = "call"
    /\ touches' = [touches EXCEPT ![pr] =
                      IF kind[pr] = "joint" \/ stage[pr] = "bump" THEN 1 ELSE 0]
    /\ pc' = [pc EXCEPT ![pr] = "commit"]
    /\ UNCHANGED <<version, epoch, stage, kind, pending, reader, snapshot, uncovered>>

\* Mutant: a failed transaction leaves its touches in the registry.
AbortKeepsTouches(pr) ==
    /\ pc[pr] \in {"call", "commit"}
    /\ stage[pr] = "bump" => Faults
    /\ pc' = [pc EXCEPT ![pr] = "idle"]
    /\ uncovered' = (uncovered \/ Owes(pr))
    /\ UNCHANGED <<version, epoch, stage, kind, touches, pending, reader, snapshot>>

\* call or Commit returns an error: the touches are popped, the handler
\* answers with the error.  The bump transaction only fails with the database.
Abort(pr) ==
    /\ pc[pr] \in {"call", "commit"}
    /\ stage[pr] = "bump" => Faults
    /\ touches' = [touches EXCEPT ![pr] = 0]
    /\ pc' = [pc EXCEPT ![pr] = "idle"]
    /\ uncovered' = (uncovered \/ Owes(pr))
    /\ UNCHANGED <<version, epoch, stage, kind, pending, reader, snapshot>>

\* Commit succeeds and the touches are popped.
Commit(pr) ==
    /\ pc[pr] = "commit"
    /\ version' = IF stage[pr] = "mutate" THEN version + 1 ELSE version
    /\ pending' = [pending EXCEPT ![pr] = touches[pr]]
    /\ touches' = [touches EXCEPT ![pr] = 0]
    /\ pc' = [pc EXCEPT ![pr] = "sync"]
    /\ uncovered' = (uncovered \/ kind[pr] = "silent")
    /\ UNCHANGED <<epoch, stage, kind, reader, snapshot>>

\* After Transactify: a separate handler starts its second transaction.
Return(pr) ==
    LET again == stage[pr] = "mutate" /\ kind[pr] = "separate" IN
    /\ pc' = [pc EXCEPT ![pr] = IF again THEN "call" ELSE "idle"]
    /\ stage' = [stage EXCEPT ![pr] = IF again THEN "bump" ELSE "mutate"]
    /\ pending' = [pending EXCEPT ![pr] = 0]

\* syncCommittedAuthzEpochTouches: the pipeline increments what is pending.
Sync(pr) ==
    /\ pc[pr] = "sync"
    /\ epoch' = epoch + pending[pr]
    /\ uncovered' = (uncovered /\ pending[pr] = 0)
    /\ Return(pr)
    /\ UNCHANGED <<version, kind, touches, reader, snapshot>>

\* The pipeline fails before it increments: logged, never tried again.  (An
\* error after the increment, such as a lost reply, has the effect of Sync.)
SyncFails(pr) ==
    /\ Faults
    /\ pc[pr] = "sync" /\ pending[pr] = 1
    /\ uncovered' = TRUE
    /\ Return(pr)
    /\ UNCHANGED <<version, epoch, kind, touches, reader, snapshot>>

\* The process dies and is restarted; the registry was in its memory.
Crash ==
    /\ Faults
    /\ uncovered' = (uncovered \/ \E pr \in Proc : Owes(pr))
    /\ pc' = [pr \in Proc |-> "idle"]
    /\ stage' = [pr \in Proc |-> "mutate"]
    /\ touches' = [pr \in Proc |-> 0]
    /\ pending' = [pr \in Proc |-> 0]
    /\ UNCHANGED <<version, epoch, kind, reader, snapshot>>

----------------------------------------------------------------------------
(* A consumer of the epoch (external).                                     *)

ReadEpoch ==
    /\ reader.pc = "idle"
    /\ snapshot # None => snapshot.epoch # epoch
    /\ reader' = [reader EXCEPT !.pc = "epoch", !.epoch = epoch]
    /\ UNCHANGED <<version, epoch, pc, stage, kind, touches, pending, snapshot, uncovered>>

Fetch ==
    /\ reader.pc = "epoch"
    /\ reader' = [reader EXCEPT !.pc = "fetched", !.version = version]
    /\ UNCHANGED <<version, epoch, pc, stage, kind, touches, pending, snapshot, uncovered>>

Store ==
    /\ reader.pc = "fetched"
    /\ snapshot' = [epoch |-> reader.epoch, version |-> reader.version]
    /\ reader' = [reader EXCEPT !.pc = "idle"]
    /\ UNCHANGED <<version, epoch, pc, stage, kind, touches, pending, uncovered>>

----------------------------------------------------------------------------
Step(pr) == Begin(pr) \/ Call(pr) \/ Abort(pr) \/ Commit(pr) \/ Sync(pr) \/ SyncFails(pr)

Next == (\E pr \in Proc : Step(pr)) \/ Crash \/ ReadEpoch \/ Fetch \/ Store

Spec == Init /\ [][Next]_vars

\* A goroutine that has work left gets to do it (every database and Redis
\* call returns, the latter within its five seconds), and so does the
\* consumer; nobody has to send a request.
Fairness ==
    /\ \A pr \in Proc : WF_vars(Call(pr)) /\ WF_vars(Commit(pr) \/ Abort(pr)) /\ WF_vars(Sync(pr))
    /\ WF_vars(ReadEpoch) /\ WF_vars(Fetch) /\ WF_vars(Store)

LiveSpec == Spec /\ Fairness

----------------------------------------------------------------------------
(* Properties.                                                             *)

\* The consumer trusts a snapshot that misses a committed mutation.
Stale == snapshot # None /\ snapshot.epoch = epoch /\ snapshot.version < version

\* However fetches, commits and increments interleave, whatever fails: a stale
\* snapshot is trusted only while a handler still owes its increment, or since
\* a mutation whose increment was lost or never made.  One increment, by
\* whichever handler, heals everything before it.
StaleIsExplained == Stale => uncovered \/ \E pr \in Proc : Owes(pr)

\* The registry holds touches of open transactions only: an entry never
\* survives the transaction it was made for, whichever way that ends.
TouchesBelongToOpenTransactions ==
    \A pr \in Proc : touches[pr] # 0 => pc[pr] = "commit"

\* No consumer trusts a stale snapshot for ever, unless a mutation without an
\* increment of its own gets in between; then the next increment that is not
\* lost puts it right.
StalenessEnds == (Stale /\ ~ uncovered) ~> (~ Stale \/ uncovered)
============================================================================
