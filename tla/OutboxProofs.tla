---------------------------- MODULE OutboxProofs ----------------------------
(***************************************************************************)
(* Proofs about Outbox, for any number of workers and events, any batch    *)
(* size and any limits: who works on what, how often a handler may fail,   *)
(* and that the table and its workers implement AtLeastOnce.               *)
(***************************************************************************)
EXTENDS Outbox, FiniteSetTheorems, TLAPS

\* A result still to be recorded is the result of an event in the batch.
OutcomesHeld ==
    \A w \in Workers : \A e \in Events :
        outcome[w][e] # "none" => e \in batch[w]

\* FailuresBounded made inductive: a row that can still be claimed, and an event
\* whose handler has still to be called, has room for one more failure.
FailureCount ==
    \A e \in Events :
        /\ failures[e] <= attempts[e]
        /\ failures[e] <= MaxAttempts
        /\ status[e] \in {"UNSAVED", "PENDING", "RETRYING"}
             => failures[e] < MaxAttempts
        /\ \A w \in Workers :
              e \in batch[w] /\ outcome[w][e] = "none"
                => failures[e] < MaxAttempts /\ failures[e] < attempts[e]

\* A success still to be recorded did happen.
SuccessDelivered ==
    \A w \in Workers : \A e \in Events : outcome[w][e] = "ok" => e \in delivered

\* No code writes EXPIRED, which cleanup() would delete undelivered.
NeverExpired == \A e \in Events : status[e] # "EXPIRED"

\* A worker polls only when it has dealt with its batch.
PollsWhenIdle == \A w \in Workers : claimed[w] = {} \/ batch[w] = {}

IInv ==
    /\ TypeOK
    /\ PollsWhenIdle
    /\ BatchesOwned
    /\ ClaimsExclusive
    /\ OutcomesHeld
    /\ FailureCount
    /\ SuccessDelivered
    /\ NeverExpired

\* The initial state satisfies the inductive invariant.
LEMMA InitIInv == Init => IInv
  BY LimitsAssumption
  DEF Init, IInv, TypeOK, BatchesOwned, ClaimsExclusive, OutcomesHeld,
      FailureCount, SuccessDelivered, NeverExpired, PollsWhenIdle, RowStatus,
      Outcomes

\* Giving a row back under a status other than PROCESSING, which still has room
\* for a failure if it can be claimed again, keeps the invariant; the row was
\* in no other worker's hands.
LEMMA SetRowKeeps ==
  ASSUME IInv, NEW w \in Workers, NEW e \in batch[w],
         NEW newStatus \in {"PENDING", "RETRYING", "PROCESSED", "DEAD_LETTER"},
         newStatus \in {"PENDING", "RETRYING"} => failures[e] < MaxAttempts,
         SetRow(w, e, newStatus),
         budget' \in [releases : Nat, retries : Nat, crashes : Nat]
  PROVE  IInv'
  <1>1. e \in Events
    BY DEF IInv, TypeOK
  <1>2. \A v \in Workers \ {w} : e \notin batch[v]
    BY DEF IInv, BatchesOwned
  <1>3. \A v \in Workers : e \notin claimed[v]
    BY DEF IInv, BatchesOwned, ClaimsExclusive
  <1>4. /\ \A d \in Events \ {e} : status'[d] = status[d] /\ owner'[d] = owner[d]
        /\ status'[e] = newStatus
    BY <1>1 DEF SetRow, IInv, TypeOK
  <1>5. /\ \A v \in Workers : \A d \in Events \ {e} :
              /\ d \in batch'[v] <=> d \in batch[v]
              /\ outcome'[v][d] = outcome[v][d]
        /\ \A v \in Workers : e \notin batch'[v]
        /\ outcome'[w][e] = "none"
        /\ \A v \in Workers \ {w} : outcome'[v] = outcome[v]
    BY <1>1, <1>2 DEF SetRow, IInv, TypeOK
  <1>6. UNCHANGED <<attempts, claimed, delivered, failures>>
    BY DEF SetRow
  <1>7. TypeOK'
    BY <1>1 DEF SetRow, IInv, TypeOK, RowStatus, Outcomes
  <1>8. BatchesOwned'
    <2>1. SUFFICES ASSUME NEW v \in Workers, NEW d \in batch'[v]
                   PROVE  status'[d] = "PROCESSING" /\ owner'[d] = v
      BY DEF BatchesOwned
    <2>2. d \in Events \ {e}
      BY <1>5, <1>7, <2>1 DEF TypeOK
    <2>3. QED
      BY <1>4, <1>5, <2>1, <2>2 DEF IInv, BatchesOwned
  <1>9. ClaimsExclusive'
    BY <1>3, <1>4, <1>6 DEF IInv, ClaimsExclusive, TypeOK
  <1>10. \A v \in Workers : outcome'[v][e] = "none"
    BY <1>1, <1>2, <1>5 DEF IInv, OutcomesHeld
  <1>11. OutcomesHeld'
    BY <1>5, <1>10 DEF IInv, OutcomesHeld
  <1>12. FailureCount'
    BY <1>4, <1>5, <1>6 DEF IInv, FailureCount
  <1>13. SuccessDelivered'
    BY <1>5, <1>6, <1>10 DEF IInv, SuccessDelivered
  <1>14. NeverExpired'
    BY <1>4 DEF IInv, NeverExpired
  <1>15. PollsWhenIdle'
    BY <1>6 DEF SetRow, IInv, TypeOK, PollsWhenIdle
  <1>16. QED
    BY <1>15, <1>7, <1>8, <1>9, <1>11, <1>12, <1>13, <1>14 DEF IInv

\* Every step preserves the inductive invariant.
LEMMA NextIInv == IInv /\ [Next]_vars => IInv'
  <1> SUFFICES ASSUME IInv, [Next]_vars PROVE IInv'
    OBVIOUS
  <1> USE DEF IInv
  <1>1. ASSUME NEW events \in SUBSET Events, Save(events) PROVE IInv'
    <2>1. TypeOK'
      BY <1>1 DEF Save, TypeOK, RowStatus
    <2>2. \A e \in events : /\ \A w \in Workers : e \notin batch[w]
                            /\ \A w \in Workers : e \notin claimed[w]
      BY <1>1 DEF Save, BatchesOwned, ClaimsExclusive
    <2>3. BatchesOwned' /\ ClaimsExclusive'
      BY <1>1, <2>2 DEF Save, TypeOK, BatchesOwned, ClaimsExclusive
    <2>4. OutcomesHeld' /\ FailureCount' /\ SuccessDelivered' /\ NeverExpired'
      BY <1>1 DEF Save, OutcomesHeld, FailureCount, SuccessDelivered,
                  NeverExpired
    <2>5. PollsWhenIdle'
      BY <1>1 DEF Save, PollsWhenIdle
    <2>6. QED
      BY <2>1, <2>3, <2>4, <2>5
  <1>2. ASSUME NEW w \in Workers, SelectBatch(w) PROVE IInv'
    <2>1. PICK ids \in SUBSET Claimable : claimed' = [claimed EXCEPT ![w] = ids]
      BY <1>2 DEF SelectBatch
    <2>2. ids \subseteq Events
      BY <2>1 DEF Claimable
    <2>3. TypeOK'
      BY <1>2, <2>1, <2>2 DEF SelectBatch, TypeOK, table
    <2>4. ClaimsExclusive'
      BY <1>2, <2>1 DEF SelectBatch, TypeOK, ClaimsExclusive, Claimable,
                        RowLocked, table
    <2>5. PollsWhenIdle'
      BY <1>2, <2>1 DEF SelectBatch, Idle, TypeOK, PollsWhenIdle
    <2>6. QED
      BY <1>2, <2>3, <2>4, <2>5 DEF SelectBatch, BatchesOwned, OutcomesHeld,
         FailureCount, SuccessDelivered, NeverExpired, table
  <1>3. ASSUME NEW w \in Workers, CommitBatch(w) PROVE IInv'
    <2>1. claimed[w] \subseteq Events /\ batch[w] = {}
      BY <1>3 DEF CommitBatch, TypeOK, PollsWhenIdle
    <2>2. \A e \in claimed[w] :
             /\ \A v \in Workers : e \notin batch[v]
             /\ \A v \in Workers \ {w} : e \notin claimed[v]
             /\ \A v \in Workers : outcome[v][e] = "none"
             /\ failures[e] < MaxAttempts
             /\ failures[e] < attempts[e] + 1
      BY <2>1, LimitsAssumption DEF TypeOK, BatchesOwned, ClaimsExclusive,
         OutcomesHeld, FailureCount
    <2>3. TypeOK'
      BY <1>3, <2>1 DEF CommitBatch, TypeOK, RowStatus
    <2>4. /\ \A e \in claimed[w] : /\ status'[e] = "PROCESSING"
                                  /\ owner'[e] = w
                                  /\ attempts'[e] = attempts[e] + 1
          /\ \A e \in Events \ claimed[w] : /\ status'[e] = status[e]
                                           /\ owner'[e] = owner[e]
                                           /\ attempts'[e] = attempts[e]
          /\ batch'[w] = claimed[w] /\ claimed'[w] = {}
          /\ \A v \in Workers \ {w} : /\ batch'[v] = batch[v]
                                      /\ claimed'[v] = claimed[v]
          /\ UNCHANGED <<outcome, delivered, failures, budget>>
      BY <1>3, <2>1 DEF CommitBatch, TypeOK
    <2>5. BatchesOwned'
      <3>1. SUFFICES ASSUME NEW v \in Workers, NEW e \in batch'[v]
                     PROVE  status'[e] = "PROCESSING" /\ owner'[e] = v
        BY DEF BatchesOwned
      <3>2. CASE v = w
        BY <2>4, <3>1, <3>2
      <3>3. CASE v # w
        <4>1. e \in batch[v] /\ e \in Events \ claimed[w]
          BY <2>2, <2>4, <3>1, <3>3 DEF TypeOK
        <4>2. QED
          BY <2>4, <4>1 DEF BatchesOwned
      <3>4. QED
        BY <3>2, <3>3
    <2>6. ClaimsExclusive'
      BY <2>1, <2>2, <2>3, <2>4 DEF ClaimsExclusive, TypeOK
    <2>7. OutcomesHeld'
      BY <2>1, <2>4 DEF OutcomesHeld
    <2>8. FailureCount'
      <3>1. SUFFICES ASSUME NEW e \in Events PROVE FailureCount!(e)'
        BY DEF FailureCount
      <3>2. CASE e \in claimed[w]
        BY <2>2, <2>4, <3>2, LimitsAssumption DEF TypeOK
      <3>3. CASE e \notin claimed[w]
        BY <2>4, <3>3 DEF FailureCount
      <3>4. QED
        BY <3>2, <3>3
    <2>9. SuccessDelivered' /\ NeverExpired'
      BY <2>1, <2>4 DEF SuccessDelivered, NeverExpired
    <2>10. PollsWhenIdle'
      BY <2>4 DEF PollsWhenIdle
    <2>11. QED
      BY <2>3, <2>5, <2>6, <2>7, <2>8, <2>9, <2>10
  <1>4. ASSUME NEW w \in Workers, NEW e \in Events, MarkProcessed(w, e)
        PROVE  IInv'
    <2>1. budget' \in [releases : Nat, retries : Nat, crashes : Nat]
      BY <1>4 DEF MarkProcessed, TypeOK
    <2>2. QED
      BY <1>4, <2>1, SetRowKeeps DEF MarkProcessed
  <1>5. ASSUME NEW w \in Workers, NEW e \in Events, MarkFailed(w, e)
        PROVE  IInv'
    <2>1. budget' \in [releases : Nat, retries : Nat, crashes : Nat]
      BY <1>5 DEF MarkFailed, TypeOK
    <2>2. CASE attempts[e] >= MaxAttempts
      BY <1>5, <2>1, <2>2, SetRowKeeps DEF MarkFailed
    <2>3. CASE ~(attempts[e] >= MaxAttempts)
      <3>1. failures[e] < MaxAttempts
        BY <2>3, LimitsAssumption DEF FailureCount, TypeOK
      <3>2. QED
        BY <1>5, <2>1, <2>3, <3>1, SetRowKeeps DEF MarkFailed
    <2>4. QED
      BY <2>2, <2>3
  <1>6. ASSUME NEW w \in Workers, NEW e \in Events, ReleaseLock(w, e)
        PROVE  IInv'
    <2>1. budget' \in [releases : Nat, retries : Nat, crashes : Nat]
      BY <1>6 DEF ReleaseLock, TypeOK
    <2>2. failures[e] < MaxAttempts
      BY <1>6 DEF ReleaseLock, FailureCount
    <2>3. QED
      BY <1>6, <2>1, <2>2, SetRowKeeps DEF ReleaseLock
  <1>7. ASSUME NEW e \in Events, Retry(e) PROVE IInv'
    <2>1. /\ \A w \in Workers : e \notin batch[w] /\ e \notin claimed[w]
          /\ \A w \in Workers : outcome[w][e] = "none"
      BY <1>7 DEF Retry, BatchesOwned, OutcomesHeld, RowLocked
    <2>2. TypeOK'
      BY <1>7 DEF Retry, TypeOK, RowStatus
    <2>3. BatchesOwned' /\ ClaimsExclusive'
      BY <1>7, <2>1 DEF Retry, TypeOK, BatchesOwned, ClaimsExclusive
    <2>4. FailureCount'
      BY <1>7, <2>1, LimitsAssumption DEF Retry, TypeOK, FailureCount
    <2>5. OutcomesHeld' /\ SuccessDelivered' /\ NeverExpired' /\ PollsWhenIdle'
      BY <1>7 DEF Retry, TypeOK, OutcomesHeld, SuccessDelivered, NeverExpired,
                  PollsWhenIdle
    <2>6. QED
      BY <2>2, <2>3, <2>4, <2>5
  <1>8. CASE Cleanup
    <2>1. TypeOK'
      BY <1>8 DEF Cleanup, TypeOK, RowStatus
    <2>2. BatchesOwned' /\ ClaimsExclusive'
      BY <1>8 DEF Cleanup, TypeOK, BatchesOwned, ClaimsExclusive
    <2>3. FailureCount'
      BY <1>8 DEF Cleanup, TypeOK, FailureCount
    <2>4. OutcomesHeld' /\ SuccessDelivered' /\ NeverExpired' /\ PollsWhenIdle'
      BY <1>8 DEF Cleanup, OutcomesHeld, SuccessDelivered, NeverExpired,
                  PollsWhenIdle
    <2>5. QED
      BY <2>1, <2>2, <2>3, <2>4
  <1>9. ASSUME NEW w \in Workers, NEW e \in Events,
               NEW result \in {"ok", "error"}, Dispatch(w, e, result)
        PROVE  IInv'
    <2>1. /\ e \in batch[w] /\ outcome[w][e] = "none" /\ outcome'[w][e] = result
          /\ \A v \in Workers \ {w} : outcome'[v] = outcome[v]
          /\ \A d \in Events \ {e} : outcome'[w][d] = outcome[w][d]
          /\ UNCHANGED <<table, claimed, batch, budget>>
          /\ delivered \subseteq delivered'
          /\ result = "ok" => e \in delivered'
      BY <1>9 DEF Dispatch, TypeOK
    <2>2. /\ \A d \in Events \ {e} : failures'[d] = failures[d]
          /\ failures'[e] \in {failures[e], failures[e] + 1}
      BY <1>9 DEF Dispatch, TypeOK
    <2>3. TypeOK'
      BY <1>9 DEF Dispatch, TypeOK, Outcomes, table
    <2>4. BatchesOwned' /\ ClaimsExclusive' /\ NeverExpired' /\ PollsWhenIdle'
      BY <2>1 DEF BatchesOwned, ClaimsExclusive, NeverExpired, PollsWhenIdle,
                  table
    <2>5. OutcomesHeld' /\ SuccessDelivered'
      BY <2>1 DEF OutcomesHeld, SuccessDelivered
    <2>6. status[e] = "PROCESSING" /\ \A v \in Workers \ {w} : e \notin batch[v]
      BY <2>1 DEF BatchesOwned
    <2>7. FailureCount'
      BY <2>1, <2>2, <2>6, LimitsAssumption DEF FailureCount, TypeOK, table
    <2>8. QED
      BY <2>3, <2>4, <2>5, <2>7
  <1>10. ASSUME NEW w \in Workers, Crash(w) PROVE IInv'
    <2>1. /\ claimed'[w] = {} /\ batch'[w] = {}
          /\ \A e \in Events : outcome'[w][e] = "none"
          /\ \A v \in Workers \ {w} : /\ claimed'[v] = claimed[v]
                                      /\ batch'[v] = batch[v]
                                      /\ outcome'[v] = outcome[v]
          /\ UNCHANGED <<table, delivered, failures>>
      BY <1>10 DEF Crash, TypeOK
    <2>2. TypeOK'
      BY <1>10 DEF Crash, TypeOK, Outcomes, table
    <2>3. BatchesOwned' /\ ClaimsExclusive'
      BY <2>1 DEF BatchesOwned, ClaimsExclusive, table
    <2>4. OutcomesHeld' /\ SuccessDelivered' /\ NeverExpired' /\ PollsWhenIdle'
      BY <2>1 DEF OutcomesHeld, SuccessDelivered, NeverExpired, PollsWhenIdle,
                  table
    <2>5. FailureCount'
      BY <2>1 DEF FailureCount, table
    <2>6. QED
      BY <2>2, <2>3, <2>4, <2>5
  <1>11. CASE UNCHANGED vars
    BY <1>11 DEF vars, table, TypeOK, PollsWhenIdle, BatchesOwned,
       ClaimsExclusive, OutcomesHeld, FailureCount, SuccessDelivered,
       NeverExpired
  <1>12. QED
    BY <1>1, <1>2, <1>3, <1>4, <1>5, <1>6, <1>7, <1>8, <1>9, <1>10, <1>11
    DEF Next, WorkerStep

-----------------------------------------------------------------------------
(* The theorems. *)

\* Every reachable state satisfies the inductive invariant.
THEOREM InductiveInvariant == Spec => []IInv
  BY InitIInv, NextIInv, PTL DEF Spec

\* Type correctness of the table and of the workers' memory.
THEOREM TypeCorrect == Spec => []TypeOK
  <1>1. IInv => TypeOK
    BY DEF IInv
  <1>2. QED
    BY InductiveInvariant, <1>1, PTL

\* No two workers work on the same event: a batch is PROCESSING in its
\* worker's name, whatever crashes, retries and cleanups come in between.
THEOREM BatchesAreOwned == Spec => []BatchesOwned
  <1>1. IInv => BatchesOwned
    BY DEF IInv
  <1>2. QED
    BY InductiveInvariant, <1>1, PTL

\* Between the SELECT and the UPDATE of lock_batch() no other transaction
\* takes the rows.
THEOREM ClaimsAreExclusive == Spec => []ClaimsExclusive
  <1>1. IInv => ClaimsExclusive
    BY DEF IInv
  <1>2. QED
    BY InductiveInvariant, <1>1, PTL

\* A handler fails at most max_attempts times for one event before the event
\* is dead-lettered or an administrator resets it.
THEOREM FailuresAreBounded == Spec => []FailuresBounded
  <1>1. IInv => FailuresBounded
    BY DEF IInv, FailureCount, FailuresBounded
  <1>2. QED
    BY InductiveInvariant, <1>1, PTL

-----------------------------------------------------------------------------
(* What a crash can take out of circulation. *)

\* No worker has more in hand than a batch, and crashes only use up their budget.
BatchLimit ==
    /\ \A w \in Workers : /\ Cardinality(claimed[w]) <= BatchSize
                          /\ Cardinality(batch[w]) <= BatchSize
    /\ budget.crashes <= MaxCrashes

StrandedInv == BatchLimit /\ StrandedByCrashes

\* The rows are finitely many.
LEMMA RowsFinite ==
  ASSUME NEW S \in SUBSET Events
  PROVE  IsFiniteSet(S) /\ Cardinality(S) \in Nat
  BY EventsAssumption, FS_Subset, FS_CardinalityType

\* A smaller set of rows has no more rows.
LEMMA FewerRows ==
  ASSUME NEW S \in SUBSET Events, NEW T \in SUBSET S
  PROVE  Cardinality(T) <= Cardinality(S)
  BY RowsFinite, FS_Subset

\* Initially nothing is stored.
LEMMA InitStranded == Init => StrandedInv
  <1> SUFFICES ASSUME Init PROVE StrandedInv
    OBVIOUS
  <1>1. Stranded = {}
    BY DEF Init, Stranded
  <1>2. BatchLimit
    BY FS_EmptySet, LimitsAssumption DEF Init, BatchLimit
  <1>3. StrandedByCrashes
    BY <1>1, FS_EmptySet, LimitsAssumption DEF Init, StrandedByCrashes
  <1>4. QED
    BY <1>2, <1>3 DEF StrandedInv

\* No step but a crash strands a row or enlarges a batch that was claimed.
LEMMA StepStrandsNothing ==
  ASSUME IInv, IInv', StrandedInv, [Next]_vars, \A w \in Workers : ~Crash(w)
  PROVE  StrandedInv'
  <1> USE DEF IInv
  <1>1. Stranded' \subseteq Stranded
    <2>1. ASSUME NEW events \in SUBSET Events, Save(events)
          PROVE  Stranded' \subseteq Stranded
      BY <2>1 DEF Save, Stranded, TypeOK
    <2>2. ASSUME NEW w \in Workers, SelectBatch(w) PROVE Stranded' \subseteq Stranded
      BY <2>2 DEF SelectBatch, Stranded, table
    <2>3. ASSUME NEW w \in Workers, CommitBatch(w) PROVE Stranded' \subseteq Stranded
      <3>1. batch[w] = {} /\ batch'[w] = claimed[w]
        BY <2>3 DEF CommitBatch, PollsWhenIdle, TypeOK
      <3>2. \A v \in Workers \ {w} : batch'[v] = batch[v]
        BY <2>3 DEF CommitBatch, TypeOK
      <3>3. \A e \in Events \ claimed[w] : status'[e] = status[e]
        BY <2>3 DEF CommitBatch
      <3>4. QED
        BY <3>1, <3>2, <3>3 DEF Stranded
    <2>4. ASSUME NEW w \in Workers, NEW e \in batch[w],
                 NEW to \in {"PENDING", "RETRYING", "PROCESSED", "DEAD_LETTER"},
                 SetRow(w, e, to)
          PROVE  Stranded' \subseteq Stranded
      <3>1. \A d \in Events \ {e} : status'[d] = status[d]
        BY <2>4 DEF SetRow, TypeOK
      <3>2. e \in Events /\ status'[e] = to
        BY <2>4 DEF SetRow, TypeOK
      <3>3. \A v \in Workers : \A d \in Events \ {e} :
               d \in batch[v] => d \in batch'[v]
        BY <2>4 DEF SetRow, TypeOK
      <3>4. QED
        BY <3>1, <3>2, <3>3 DEF Stranded
    <2>5. ASSUME NEW w \in Workers, NEW e \in Events,
                 MarkProcessed(w, e) \/ MarkFailed(w, e) \/ ReleaseLock(w, e)
          PROVE  Stranded' \subseteq Stranded
      BY <2>4, <2>5 DEF MarkProcessed, MarkFailed, ReleaseLock
    <2>6. ASSUME NEW e \in Events, Retry(e) PROVE Stranded' \subseteq Stranded
      BY <2>6 DEF Retry, Stranded, TypeOK
    <2>7. CASE Cleanup
      BY <2>7 DEF Cleanup, Stranded, TypeOK
    <2>8. ASSUME NEW w \in Workers, NEW e \in Events,
                 NEW result \in {"ok", "error"}, Dispatch(w, e, result)
          PROVE  Stranded' \subseteq Stranded
      BY <2>8 DEF Dispatch, Stranded, table
    <2>9. CASE UNCHANGED vars
      BY <2>9 DEF vars, table, Stranded
    <2>10. QED
      BY <2>1, <2>2, <2>3, <2>5, <2>6, <2>7, <2>8, <2>9 DEF Next, WorkerStep
  <1>2. budget'.crashes = budget.crashes
    <2>1. ASSUME NEW w \in Workers, NEW e \in Events, ReleaseLock(w, e)
          PROVE  budget'.crashes = budget.crashes
      BY <2>1 DEF ReleaseLock, TypeOK
    <2>2. ASSUME NEW e \in Events, Retry(e) PROVE budget'.crashes = budget.crashes
      BY <2>2 DEF Retry, TypeOK
    <2>3. QED
      BY <2>1, <2>2
      DEF Next, WorkerStep, Save, SelectBatch, CommitBatch, Dispatch,
          MarkProcessed, MarkFailed, Cleanup, vars
  <1>3. BatchLimit'
    <2> SUFFICES ASSUME NEW v \in Workers
                 PROVE  /\ Cardinality(claimed'[v]) <= BatchSize
                        /\ Cardinality(batch'[v]) <= BatchSize
      BY <1>2 DEF StrandedInv, BatchLimit
    <2>1. /\ Cardinality(claimed[v]) <= BatchSize /\ Cardinality(batch[v]) <= BatchSize
          /\ claimed[v] \in SUBSET Events /\ batch[v] \in SUBSET Events
      BY DEF StrandedInv, BatchLimit, TypeOK
    <2>2. Cardinality({}) <= BatchSize
      BY FS_EmptySet, LimitsAssumption
    <2>3. ASSUME NEW w \in Workers, SelectBatch(w)
          PROVE  Cardinality(claimed'[v]) <= BatchSize /\ batch'[v] = batch[v]
      <3>1. PICK ids \in SUBSET Claimable :
               /\ \/ Cardinality(ids) = BatchSize
                  \/ ids = Claimable /\ Cardinality(ids) < BatchSize
               /\ claimed' = [claimed EXCEPT ![w] = ids]
        BY <2>3 DEF SelectBatch
      <3>2. Cardinality(ids) \in Nat
        BY RowsFinite DEF Claimable
      <3>3. Cardinality(ids) <= BatchSize
        BY <3>1, <3>2, LimitsAssumption
      <3>4. claimed'[v] \in {claimed[v], ids} /\ batch' = batch
        BY <2>3, <3>1 DEF SelectBatch, TypeOK
      <3>5. QED
        BY <2>1, <3>3, <3>4
    <2>4. ASSUME NEW w \in Workers, CommitBatch(w)
          PROVE  /\ claimed'[v] \in {claimed[v], {}}
                 /\ batch'[v] \in {batch[v], claimed[v]}
      BY <2>4 DEF CommitBatch, TypeOK
    <2>5. ASSUME NEW w \in Workers, NEW e \in Events,
                 MarkProcessed(w, e) \/ MarkFailed(w, e) \/ ReleaseLock(w, e)
          PROVE  claimed'[v] = claimed[v] /\ batch'[v] \subseteq batch[v]
      BY <2>5 DEF MarkProcessed, MarkFailed, ReleaseLock, SetRow, TypeOK
    <2>6. CASE UNCHANGED <<claimed, batch>>
      BY <2>1, <2>6
    <2>7. CASE \E w \in Workers : SelectBatch(w)
      BY <2>1, <2>3, <2>7
    <2>8. CASE \E w \in Workers : CommitBatch(w)
      BY <2>1, <2>2, <2>4, <2>8
    <2>9. CASE \E w \in Workers, e \in Events :
                 MarkProcessed(w, e) \/ MarkFailed(w, e) \/ ReleaseLock(w, e)
      <3>1. claimed'[v] = claimed[v] /\ batch'[v] \in SUBSET batch[v]
        BY <2>5, <2>9
      <3>2. Cardinality(batch'[v]) <= Cardinality(batch[v])
        BY <2>1, <3>1, FewerRows
      <3>3. Cardinality(batch'[v]) \in Nat /\ Cardinality(batch[v]) \in Nat
        BY <2>1, <3>1, RowsFinite
      <3>4. QED
        BY <2>1, <3>1, <3>2, <3>3, LimitsAssumption
    <2>10. QED
      BY <2>6, <2>7, <2>8, <2>9
      DEF Next, WorkerStep, Save, Retry, Cleanup, Dispatch, vars
  <1>4. StrandedByCrashes'
    <2>1. Stranded \in SUBSET Events /\ Stranded' \in SUBSET Stranded
      BY <1>1 DEF Stranded
    <2>2. /\ Cardinality(Stranded') <= Cardinality(Stranded)
          /\ Cardinality(Stranded') \in Nat /\ Cardinality(Stranded) \in Nat
      BY <2>1, FewerRows, RowsFinite
    <2>3. BatchSize * (MaxCrashes - budget.crashes) \in Int
      BY LimitsAssumption DEF TypeOK
    <2>4. QED
      BY <1>2, <2>2, <2>3 DEF StrandedInv, StrandedByCrashes
  <1>5. QED
    BY <1>3, <1>4 DEF StrandedInv

\* A crash strands at most the batch of its worker.
LEMMA CrashStrandsBatch ==
  ASSUME IInv, IInv', StrandedInv, NEW w \in Workers, Crash(w)
  PROVE  StrandedInv'
  <1> USE DEF IInv
  <1>1. /\ claimed'[w] = {} /\ batch'[w] = {} /\ status' = status
        /\ \A v \in Workers \ {w} : claimed'[v] = claimed[v] /\ batch'[v] = batch[v]
        /\ budget'.crashes = budget.crashes - 1
    BY DEF Crash, TypeOK, table
  <1>2. budget.crashes \in Nat /\ budget'.crashes \in Nat
    BY DEF TypeOK
  <1>3. BatchLimit'
    <2>1. Cardinality({}) <= BatchSize
      BY FS_EmptySet, LimitsAssumption
    <2>2. \A v \in Workers : /\ claimed'[v] \in {claimed[v], {}}
                             /\ batch'[v] \in {batch[v], {}}
      BY <1>1
    <2>3. budget'.crashes <= MaxCrashes
      BY <1>1, <1>2, LimitsAssumption DEF StrandedInv, BatchLimit
    <2>4. QED
      BY <2>1, <2>2, <2>3 DEF StrandedInv, BatchLimit
  <1>4. /\ Stranded \in SUBSET Events /\ batch[w] \in SUBSET Events
        /\ Stranded' \in SUBSET (Stranded \cup batch[w])
    <2>1. Stranded' \subseteq Stranded \cup batch[w]
      BY <1>1 DEF Stranded
    <2>2. QED
      BY <2>1 DEF Stranded, TypeOK
  <1>5. Cardinality(Stranded \cup batch[w]) <= Cardinality(Stranded) + Cardinality(batch[w])
    <2>1. IsFiniteSet(Stranded) /\ IsFiniteSet(batch[w])
      BY <1>4, RowsFinite
    <2>2. Stranded \cap batch[w] \in SUBSET Events
      BY <1>4
    <2>3. Cardinality(Stranded \cap batch[w]) \in Nat
      BY <2>2, RowsFinite
    <2>4. Cardinality(Stranded \cup batch[w])
            = Cardinality(Stranded) + Cardinality(batch[w])
                - Cardinality(Stranded \cap batch[w])
      BY <2>1, FS_Union
    <2>5. Cardinality(Stranded) \in Nat /\ Cardinality(batch[w]) \in Nat
      BY <1>4, RowsFinite
    <2>6. QED
      BY <2>3, <2>4, <2>5
  <1>6. Cardinality(Stranded') <= Cardinality(Stranded \cup batch[w])
    <2>1. Stranded \cup batch[w] \in SUBSET Events
      BY <1>4
    <2>2. QED
      BY <1>4, <2>1, FewerRows
  <1>7. /\ Cardinality(Stranded) \in Nat /\ Cardinality(batch[w]) \in Nat
        /\ Cardinality(Stranded') \in Nat
        /\ Cardinality(Stranded \cup batch[w]) \in Nat
    BY <1>4, RowsFinite
  <1>8. Cardinality(Stranded') <= BatchSize * (MaxCrashes - budget.crashes) + BatchSize
    <2>1. Cardinality(batch[w]) <= BatchSize
      BY DEF StrandedInv, BatchLimit
    <2>2. BatchSize * (MaxCrashes - budget.crashes) \in Int
      BY <1>2, LimitsAssumption
    <2>3. Cardinality(Stranded) <= BatchSize * (MaxCrashes - budget.crashes)
      BY DEF StrandedInv, StrandedByCrashes
    <2>4. QED
      BY <1>5, <1>6, <1>7, <2>1, <2>2, <2>3, LimitsAssumption
  <1>9. BatchSize * (MaxCrashes - budget'.crashes)
          = BatchSize * (MaxCrashes - budget.crashes) + BatchSize
    <2>1. ASSUME NEW n \in Nat, NEW k \in Int PROVE n * (k + 1) = n * k + n
      OBVIOUS
    <2>2. MaxCrashes - budget'.crashes = (MaxCrashes - budget.crashes) + 1
      BY <1>1, <1>2, LimitsAssumption
    <2>3. MaxCrashes - budget.crashes \in Int
      BY <1>2, LimitsAssumption
    <2>4. QED
      BY <2>1, <2>2, <2>3, LimitsAssumption
  <1>10. QED
    BY <1>3, <1>8, <1>9 DEF StrandedInv, StrandedByCrashes

\* Whatever polls, releases, retries and cleanups do, only crashes take events
\* out of circulation, and each at most the batch of its worker: for any number
\* of workers and events and any batch size.
THEOREM OnlyCrashesStrand == Spec => []StrandedByCrashes
  <1>1. IInv /\ IInv' /\ StrandedInv /\ [Next]_vars => StrandedInv'
    BY StepStrandsNothing, CrashStrandsBatch
  <1>2. StrandedInv => StrandedByCrashes
    BY DEF StrandedInv
  <1>3. QED
    BY InductiveInvariant, InitStranded, <1>1, <1>2, PTL DEF Spec

-----------------------------------------------------------------------------
(* Refinement: the rows and the handlers' successes, read as AtLeastOnce. *)

\* What the promise sees of the table.
PromiseState == <<status, delivered>>

\* An empty table is the promise's initial state.
LEMMA InitRefines == Init => Promise!Init
  BY DEF Init, Promise!Init

\* Every step of the table or of a worker is a step of the promise or leaves
\* what the promise sees alone.
LEMMA StepRefines == IInv /\ [Next]_vars => [Promise!Next]_(Promise!vars)
  <1> SUFFICES ASSUME IInv, [Next]_vars
               PROVE  Promise!Next \/ UNCHANGED Promise!vars
    OBVIOUS
  <1> USE DEF IInv
  <1>1. ASSUME UNCHANGED PromiseState PROVE UNCHANGED Promise!vars
    BY <1>1 DEF PromiseState, Promise!vars
  <1>2. ASSUME NEW events \in SUBSET Events, Save(events) PROVE Promise!Accept(events)
    BY <1>2 DEF Save, Promise!Accept, TypeOK
  <1>3. ASSUME NEW w \in Workers, SelectBatch(w) PROVE UNCHANGED PromiseState
    BY <1>3 DEF SelectBatch, PromiseState, table
  <1>4. ASSUME NEW w \in Workers, CommitBatch(w) PROVE UNCHANGED Promise!vars
    <2>1. \A e \in Events : status'[e] # status[e] =>
             /\ status[e] \in {"PENDING", "RETRYING"}
             /\ status'[e] = "PROCESSING"
      BY <1>4 DEF CommitBatch, ClaimsExclusive
    <2>2. QED
      BY <1>4, <2>1 DEF CommitBatch, Promise!vars
  <1>5. ASSUME NEW w \in Workers, NEW e \in Events, MarkProcessed(w, e)
        PROVE  Promise!Complete(e)
    <2>1. status[e] = "PROCESSING" /\ e \in delivered
      BY <1>5 DEF MarkProcessed, BatchesOwned, SuccessDelivered
    <2>2. status' = [status EXCEPT ![e] = "PROCESSED"] /\ delivered' = delivered
      BY <1>5 DEF MarkProcessed, SetRow
    <2>3. QED
      BY <2>1, <2>2 DEF Promise!Complete, TypeOK
  <1>6. ASSUME NEW w \in Workers, NEW e \in Events, MarkFailed(w, e)
        PROVE  Promise!GiveUp(e) \/ UNCHANGED Promise!vars
    <2>1. status[e] = "PROCESSING" /\ delivered' = delivered
      BY <1>6 DEF MarkFailed, BatchesOwned, SetRow
    <2>2. CASE status' = [status EXCEPT ![e] = "DEAD_LETTER"]
      BY <2>1, <2>2 DEF Promise!GiveUp, TypeOK
    <2>3. CASE status' = [status EXCEPT ![e] = "RETRYING"]
      BY <2>1, <2>3 DEF Promise!vars, TypeOK
    <2>4. QED
      BY <1>6, <2>2, <2>3 DEF MarkFailed, SetRow
  <1>7. ASSUME NEW w \in Workers, NEW e \in Events, ReleaseLock(w, e)
        PROVE  UNCHANGED Promise!vars
    <2>1. status[e] = "PROCESSING" /\ delivered' = delivered
      BY <1>7 DEF ReleaseLock, BatchesOwned, SetRow
    <2>2. status' = [status EXCEPT ![e] = "PENDING"]
      BY <1>7 DEF ReleaseLock, SetRow
    <2>3. QED
      BY <2>1, <2>2 DEF Promise!vars, TypeOK
  <1>8. ASSUME NEW e \in Events, Retry(e)
        PROVE  Promise!Reopen(e) \/ UNCHANGED Promise!vars
    <2>1. status' = [status EXCEPT ![e] = "PENDING"] /\ delivered' = delivered
      BY <1>8 DEF Retry
    <2>2. CASE status[e] = "DEAD_LETTER"
      BY <2>1, <2>2 DEF Promise!Reopen, TypeOK
    <2>3. CASE status[e] \in {"FAILED", "RETRYING"}
      BY <2>1, <2>3 DEF Promise!vars, TypeOK
    <2>4. QED
      BY <1>8, <2>2, <2>3 DEF Retry
  <1>9. ASSUME Cleanup PROVE UNCHANGED Promise!vars
    <2>1. \A e \in Events : status'[e] # status[e] =>
             status[e] = "PROCESSED" /\ status'[e] = "DELETED"
      BY <1>9 DEF Cleanup, NeverExpired
    <2>2. QED
      BY <1>9, <2>1 DEF Cleanup, Promise!vars
  <1>10. ASSUME NEW w \in Workers, NEW e \in Events,
                NEW result \in {"ok", "error"}, Dispatch(w, e, result)
         PROVE  Promise!Deliver(e) \/ UNCHANGED Promise!vars
    <2>1. status[e] = "PROCESSING" /\ status' = status
      BY <1>10 DEF Dispatch, BatchesOwned, table
    <2>2. CASE result = "ok"
      BY <1>10, <2>1, <2>2 DEF Dispatch, Promise!Deliver
    <2>3. CASE result # "ok"
      BY <1>10, <2>1, <2>3 DEF Dispatch, Promise!vars
    <2>4. QED
      BY <2>2, <2>3
  <1>11. ASSUME NEW w \in Workers, Crash(w) PROVE UNCHANGED PromiseState
    BY <1>11 DEF Crash, PromiseState, table
  <1>12. ASSUME UNCHANGED vars PROVE UNCHANGED PromiseState
    BY <1>12 DEF vars, table, PromiseState
  <1>13. ASSUME Next PROVE Promise!Next \/ UNCHANGED Promise!vars
    BY <1>1, <1>2, <1>3, <1>4, <1>5, <1>6, <1>7, <1>8, <1>9, <1>10, <1>11, <1>13
    DEF Next, WorkerStep, Promise!Next
  <1>14. QED
    BY <1>1, <1>12, <1>13

\* The outbox implements the abstract queue: an event is completed only after a
\* handler took it, is never lost or resurrected, and is not handled once it is
\* settled.
THEOREM ImplementsAtLeastOnce == Spec => DeliversAtLeastOnce
  <1>1. IInv /\ [Next]_vars => [Promise!Next]_(Promise!vars)
    BY StepRefines
  <1>2. QED
    BY InitRefines, <1>1, InductiveInvariant, PTL
    DEF Spec, DeliversAtLeastOnce, Promise!Spec

=============================================================================
