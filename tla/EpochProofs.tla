---------------------------- MODULE EpochProofs ----------------------------
(***************************************************************************)
(* Proof that a stale snapshot is always explained, for any number of      *)
(* goroutines and mutations and with every fault of the model.             *)
(***************************************************************************)
EXTENDS Epoch, TLAPS

\* A mutation is still to be followed by an increment, or never will be.
Explained == uncovered \/ \E pr \in Proc : Owes(pr)

\* A handler that must touch has done so when its transaction commits, and
\* carries the touch to Redis.
TouchesCarried ==
    \A pr \in Proc :
        /\ pc[pr] = "commit" /\ (kind[pr] = "joint" \/ stage[pr] = "bump") => touches[pr] = 1
        /\ pc[pr] = "sync" /\ stage[pr] = "bump" => pending[pr] = 1

\* Consumers never know an epoch that Redis has not reached.
EpochsPast ==
    /\ reader.epoch <= epoch
    /\ snapshot # None => snapshot.epoch <= epoch

\* A snapshot on its way to the cache is stale only for the same reasons.
ReaderIsExplained ==
    reader.pc = "fetched" /\ reader.epoch = epoch /\ reader.version < version => Explained

\* The inductive invariant.
IndInv ==
    /\ TypeOK
    /\ TouchesBelongToOpenTransactions
    /\ TouchesCarried
    /\ EpochsPast
    /\ ReaderIsExplained
    /\ StaleIsExplained

\* The initial state satisfies the invariant.
LEMMA InitInv == Init => IndInv
<1> SUFFICES ASSUME Init PROVE IndInv
  OBVIOUS
<1>1. TypeOK
  BY DEF Init, TypeOK, Kind
<1>2. TouchesBelongToOpenTransactions /\ TouchesCarried
  BY DEF Init, TouchesBelongToOpenTransactions, TouchesCarried
<1>3. EpochsPast /\ ReaderIsExplained /\ StaleIsExplained
  BY DEF Init, EpochsPast, ReaderIsExplained, StaleIsExplained, Stale
<1> QED
  BY <1>1, <1>2, <1>3 DEF IndInv

\* Facts about where a goroutine's touches are follow from its own step.
LEMMA TouchesInv ==
    ASSUME TypeOK, TouchesBelongToOpenTransactions, TouchesCarried, Next
    PROVE  TypeOK' /\ TouchesBelongToOpenTransactions' /\ TouchesCarried'
<1> USE EpochAssumption DEF TypeOK, TouchesBelongToOpenTransactions, TouchesCarried
<1>1. ASSUME NEW pr \in Proc, Begin(pr)
      PROVE  TypeOK' /\ TouchesBelongToOpenTransactions' /\ TouchesCarried'
  BY <1>1 DEF Begin, Kind
<1>2. ASSUME NEW pr \in Proc, Call(pr)
      PROVE  TypeOK' /\ TouchesBelongToOpenTransactions' /\ TouchesCarried'
  BY <1>2 DEF Call
<1>3. ASSUME NEW pr \in Proc, Abort(pr)
      PROVE  TypeOK' /\ TouchesBelongToOpenTransactions' /\ TouchesCarried'
  BY <1>3 DEF Abort
<1>4. ASSUME NEW pr \in Proc, Commit(pr)
      PROVE  TypeOK' /\ TouchesBelongToOpenTransactions' /\ TouchesCarried'
  BY <1>4 DEF Commit
<1>5. ASSUME NEW pr \in Proc, Sync(pr) \/ SyncFails(pr)
      PROVE  TypeOK' /\ TouchesBelongToOpenTransactions' /\ TouchesCarried'
  <2>0. pending[pr] \in {0, 1}
    OBVIOUS
  <2>1. /\ pc[pr] = "sync" /\ Return(pr)
        /\ epoch' \in Nat /\ uncovered' \in BOOLEAN
        /\ UNCHANGED <<version, kind, touches, reader, snapshot>>
    <3>1. CASE Sync(pr)
      BY <2>0, <3>1 DEF Sync
    <3>2. CASE SyncFails(pr)
      BY <3>2 DEF SyncFails
    <3> QED
      BY <1>5, <3>1, <3>2
  <2>2. TypeOK'
    BY <2>1 DEF Return
  <2>3. TouchesBelongToOpenTransactions'
    BY <2>1 DEF Return
  <2>4. TouchesCarried'
    BY <2>1 DEF Return
  <2> QED
    BY <2>2, <2>3, <2>4
<1>6. CASE Crash
  BY <1>6 DEF Crash
<1>7. CASE ReadEpoch \/ Fetch \/ Store
  <2>1. UNCHANGED <<version, epoch, pc, stage, kind, touches, pending, uncovered>>
    BY <1>7 DEF ReadEpoch, Fetch, Store
  <2>2. reader' \in [pc : {"idle", "epoch", "fetched"}, epoch : Nat, version : Nat]
    BY <1>7 DEF ReadEpoch, Fetch, Store
  <2>3. snapshot' \in Snapshot \cup {None}
    BY <1>7 DEF ReadEpoch, Fetch, Store, Snapshot
  <2> QED
    BY <2>1, <2>2, <2>3
<1> QED
  BY <1>1, <1>2, <1>3, <1>4, <1>5, <1>6, <1>7 DEF Next, Step

\* A step that moves neither the epoch nor the version keeps explanations.
LEMMA ExplanationKept ==
    ASSUME IndInv, UNCHANGED <<epoch, version, reader, snapshot>>, Explained => Explained'
    PROVE  (EpochsPast /\ ReaderIsExplained /\ StaleIsExplained)'
BY DEF IndInv, EpochsPast, ReaderIsExplained, StaleIsExplained, Stale, Explained

\* A step that leaves its mutation explained may move the version.
LEMMA ExplainedAfter ==
    ASSUME IndInv, UNCHANGED <<epoch, reader, snapshot>>, Explained'
    PROVE  (EpochsPast /\ ReaderIsExplained /\ StaleIsExplained)'
BY DEF IndInv, EpochsPast, ReaderIsExplained, StaleIsExplained, Explained

\* Every step keeps the invariant.
LEMMA NextInv == ASSUME IndInv, Next PROVE IndInv'
<1> USE DEF IndInv, TypeOK
<1>1. ASSUME NEW pr \in Proc, Begin(pr) \/ Call(pr)
      PROVE  (EpochsPast /\ ReaderIsExplained /\ StaleIsExplained)'
  <2>1. \A q \in Proc : Owes(q) => Owes(q)'
    BY <1>1 DEF Begin, Call, Owes
  <2> QED
    BY <1>1, <2>1, ExplanationKept DEF Begin, Call, Explained
<1>2. ASSUME NEW pr \in Proc, Abort(pr)
      PROVE  (EpochsPast /\ ReaderIsExplained /\ StaleIsExplained)'
  <2>1. \A q \in Proc : Owes(q) => Owes(q)' \/ q = pr
    BY <1>2 DEF Abort, Owes
  <2> QED
    BY <1>2, <2>1, ExplanationKept DEF Abort, Explained
<1>3. ASSUME NEW pr \in Proc, Commit(pr)
      PROVE  (EpochsPast /\ ReaderIsExplained /\ StaleIsExplained)'
  <2>1. CASE kind[pr] = "silent"
    BY <1>3, <2>1, ExplainedAfter DEF Commit, Explained
  <2>2. CASE kind[pr] # "silent"
    <3>1. Owes(pr)'
      BY <1>3, <2>2 DEF Commit, Owes, TouchesCarried, Kind
    <3> QED
      BY <1>3, <3>1, ExplainedAfter DEF Commit, Explained
  <2> QED
    BY <2>1, <2>2
<1>4. ASSUME NEW pr \in Proc, Sync(pr)
      PROVE  (EpochsPast /\ ReaderIsExplained /\ StaleIsExplained)'
  <2>1. CASE pending[pr] = 1
    BY <1>4, <2>1, NoneAssumption
       DEF Sync, EpochsPast, ReaderIsExplained, StaleIsExplained, Stale, Snapshot
  <2>2. CASE pending[pr] = 0
    <3>1. \A q \in Proc : Owes(q) => Owes(q)'
      BY <1>4, <2>2 DEF Sync, Return, Owes, TouchesCarried
    <3>2. epoch' = epoch /\ (uncovered => uncovered')
      BY <1>4, <2>2 DEF Sync
    <3> QED
      BY <1>4, <3>1, <3>2, ExplanationKept DEF Sync, Explained
  <2> QED
    BY <2>1, <2>2
<1>5. ASSUME NEW pr \in Proc, SyncFails(pr)
      PROVE  (EpochsPast /\ ReaderIsExplained /\ StaleIsExplained)'
  BY <1>5, ExplainedAfter DEF SyncFails, Explained
<1>6. ASSUME Crash
      PROVE  (EpochsPast /\ ReaderIsExplained /\ StaleIsExplained)'
  <2>1. UNCHANGED <<epoch, version, reader, snapshot>> /\ (Explained => Explained')
    BY <1>6 DEF Crash, Explained
  <2> QED
    BY <2>1, ExplanationKept
<1>7. ASSUME ReadEpoch
      PROVE  (EpochsPast /\ ReaderIsExplained /\ StaleIsExplained)'
  <2>1. Explained' = Explained
    BY <1>7 DEF ReadEpoch, Explained, Owes
  <2>2. /\ reader'.pc = "epoch" /\ reader'.epoch = epoch
        /\ UNCHANGED <<epoch, version, snapshot>>
    BY <1>7 DEF ReadEpoch
  <2> QED
    BY <2>1, <2>2 DEF EpochsPast, ReaderIsExplained, StaleIsExplained, Stale, Explained
<1>8. ASSUME Fetch
      PROVE  (EpochsPast /\ ReaderIsExplained /\ StaleIsExplained)'
  <2>1. Explained' = Explained
    BY <1>8 DEF Fetch, Explained, Owes
  <2>2. /\ reader'.version = version /\ reader'.epoch = reader.epoch
        /\ UNCHANGED <<epoch, version, snapshot>>
    BY <1>8 DEF Fetch
  <2> QED
    BY <2>1, <2>2 DEF EpochsPast, ReaderIsExplained, StaleIsExplained, Stale, Explained
<1>9. ASSUME Store
      PROVE  (EpochsPast /\ ReaderIsExplained /\ StaleIsExplained)'
  <2>1. Explained' = Explained
    BY <1>9 DEF Store, Explained, Owes
  <2>2. snapshot' = [epoch |-> reader.epoch, version |-> reader.version] /\ reader'.pc = "idle"
        /\ reader'.epoch = reader.epoch /\ UNCHANGED <<epoch, version>>
    BY <1>9 DEF Store
  <2>3. reader.pc = "fetched" /\ snapshot' # None /\ snapshot'.epoch = reader.epoch
        /\ snapshot'.version = reader.version
    BY <1>9, <2>2, NoneAssumption DEF Store, Snapshot
  <2>4. EpochsPast' /\ ReaderIsExplained'
    BY <2>2, <2>3 DEF EpochsPast, ReaderIsExplained
  <2>5. StaleIsExplained'
    BY <2>1, <2>2, <2>3 DEF ReaderIsExplained, StaleIsExplained, Stale, Explained
  <2> QED
    BY <2>4, <2>5
<1>10. TypeOK' /\ TouchesBelongToOpenTransactions' /\ TouchesCarried'
  BY TouchesInv
<1> QED
  BY <1>1, <1>2, <1>3, <1>4, <1>5, <1>6, <1>7, <1>8, <1>9, <1>10 DEF Next, Step

\* Every reachable state satisfies the inductive invariant.
THEOREM Invariance == Spec => []IndInv
<1>1. IndInv /\ [Next]_vars => IndInv'
  <2>1. CASE Next
    BY <2>1, NextInv
  <2>2. CASE UNCHANGED vars
    BY <2>2 DEF vars, IndInv, TypeOK, TouchesBelongToOpenTransactions, TouchesCarried,
                EpochsPast, ReaderIsExplained, StaleIsExplained, Stale, Explained, Owes
  <2> QED
    BY <2>1, <2>2
<1> QED
  BY <1>1, InitInv, PTL DEF Spec

\* The registry, the epoch and the cached snapshot keep their types.
THEOREM Typing == Spec => []TypeOK
<1>1. IndInv => TypeOK
  BY DEF IndInv
<1> QED
  BY <1>1, Invariance, PTL

\* A consumer trusts a stale snapshot only while an increment is owed, or
\* since one was lost or left out.
THEOREM StalenessTheorem == Spec => []StaleIsExplained
<1>1. IndInv => StaleIsExplained
  BY DEF IndInv
<1> QED
  BY <1>1, Invariance, PTL

\* No touch outlives the transaction that registered it.
THEOREM RegistryTheorem == Spec => []TouchesBelongToOpenTransactions
<1>1. IndInv => TouchesBelongToOpenTransactions
  BY DEF IndInv
<1> QED
  BY <1>1, Invariance, PTL
============================================================================
