------------------------------- MODULE Outbox -------------------------------
(***************************************************************************)
(* The outbox table, its repository and the workers that poll it.          *)
(*                                                                         *)
(* A unit of work stores events; a worker locks a batch (SELECT ... FOR    *)
(* UPDATE SKIP LOCKED, then UPDATE and COMMIT), hands each event to its    *)
(* handler and records the outcome.  An administrator may retry or clean   *)
(* up.  locked_at follows worker_id and nothing reads it; available_at is  *)
(* never in the future.                                                    *)
(*                                                                         *)
(* The repository is the code's.  The loop of the worker is not written    *)
(* yet: process_outbox() returns without touching the table, and its       *)
(* docstring announces the loop modelled here.  The safety properties say  *)
(* what the repository guarantees to any worker that follows it; that the  *)
(* loop runs is assumed in FairSpec only.                                  *)
(***************************************************************************)
EXTENDS Naturals, FiniteSets

CONSTANTS
    Events,         \* event ids (primary key, generated once per event)
    Workers,
    Nobody,         \* worker_id NULL
    BatchSize,      \* LIMIT of lock_batch()
    MaxAttempts,    \* max_attempts of every row
    MaxReleases,    \* bound on release_lock() calls
    MaxRetries,     \* bound on administrators' retry() calls
    MaxCrashes      \* bound on worker crashes

ASSUME EventsAssumption == IsFiniteSet(Events)
ASSUME WorkersAssumption == Nobody \notin Workers
ASSUME LimitsAssumption ==
    /\ BatchSize \in Nat \ {0}
    /\ MaxAttempts \in Nat \ {0}
    /\ MaxReleases \in Nat
    /\ MaxRetries \in Nat
    /\ MaxCrashes \in Nat

RowStatus == {"PENDING", "PROCESSING", "PROCESSED", "FAILED", "RETRYING",
              "DEAD_LETTER", "EXPIRED"}

VARIABLES
    status,     \* of each row; "UNSAVED" before save(), "DELETED" after cleanup()
    attempts,
    owner,      \* worker_id
    claimed,    \* rows each worker has locked in an open transaction
    batch,      \* events lock_batch() gave each worker, not yet dealt with
    outcome,    \* results of handlers the worker has still to record
    delivered,  \* events some handler has taken successfully
    failures,   \* failed handler calls per event since attempts was last reset
    budget      \* how many releases, retries and crashes are left

table == <<status, attempts, owner>>
vars == <<table, claimed, batch, outcome, delivered, failures, budget>>

Outcomes == {"none", "ok", "error"}

Init ==
    /\ status = [e \in Events |-> "UNSAVED"]
    /\ attempts = [e \in Events |-> 0]
    /\ owner = [e \in Events |-> Nobody]
    /\ claimed = [w \in Workers |-> {}]
    /\ batch = [w \in Workers |-> {}]
    /\ outcome = [w \in Workers |-> [e \in Events |-> "none"]]
    /\ delivered = {}
    /\ failures = [e \in Events |-> 0]
    /\ budget = [releases |-> MaxReleases, retries |-> MaxRetries,
                 crashes |-> MaxCrashes]

Idle(w) == claimed[w] = {} /\ batch[w] = {}

RowLocked(e) == \E w \in Workers : e \in claimed[w]

-----------------------------------------------------------------------------
(* The repository. *)

\* save(): a unit of work commits the events it collected.
Save(events) ==
    /\ events # {}
    /\ \A e \in events : status[e] = "UNSAVED"
    /\ status' = [e \in Events |-> IF e \in events THEN "PENDING" ELSE status[e]]
    /\ UNCHANGED <<attempts, owner, claimed, batch, outcome, delivered,
                   failures, budget>>

\* Mutant of Claimable: a plain SELECT, without FOR UPDATE SKIP LOCKED.
ClaimableUnlocked == {e \in Events : status[e] \in {"PENDING", "RETRYING"}}

\* Rows the SELECT may return: waiting, and not locked by another transaction.
Claimable == {e \in Events : /\ status[e] \in {"PENDING", "RETRYING"}
                             /\ ~RowLocked(e)}

\* lock_batch(): SELECT ... LIMIT n FOR UPDATE SKIP LOCKED, in no given order.
SelectBatch(w) ==
    /\ Idle(w)
    /\ \E ids \in SUBSET Claimable :
          /\ ids # {}
          /\ \/ Cardinality(ids) = BatchSize
             \/ ids = Claimable /\ Cardinality(ids) < BatchSize
          /\ claimed' = [claimed EXCEPT ![w] = ids]
    /\ UNCHANGED <<table, batch, outcome, delivered, failures, budget>>

\* lock_batch(): the UPDATE and the COMMIT that releases the row locks.
CommitBatch(w) ==
    /\ claimed[w] # {}
    /\ status' = [e \in Events |->
                    IF e \in claimed[w] THEN "PROCESSING" ELSE status[e]]
    /\ attempts' = [e \in Events |->
                      IF e \in claimed[w] THEN attempts[e] + 1 ELSE attempts[e]]
    /\ owner' = [e \in Events |-> IF e \in claimed[w] THEN w ELSE owner[e]]
    /\ batch' = [batch EXCEPT ![w] = claimed[w]]
    /\ claimed' = [claimed EXCEPT ![w] = {}]
    /\ UNCHANGED <<outcome, delivered, failures, budget>>

\* The row of an event leaves the worker's hands; the worker is done with it.
SetRow(w, e, newStatus) ==
    /\ status' = [status EXCEPT ![e] = newStatus]
    /\ owner' = [owner EXCEPT ![e] = Nobody]
    /\ batch' = [batch EXCEPT ![w] = @ \ {e}]
    /\ outcome' = [outcome EXCEPT ![w][e] = "none"]
    /\ UNCHANGED <<attempts, claimed, delivered, failures>>

MarkProcessed(w, e) ==
    /\ e \in batch[w]
    /\ outcome[w][e] = "ok"
    /\ SetRow(w, e, "PROCESSED")
    /\ UNCHANGED budget

\* Mutants of MarkFailed: one attempt too many; a status the column's comment
\* does not list; the status FAILED, which lock_batch() does not select.
MarkFailedLate(w, e) ==
    /\ e \in batch[w]
    /\ outcome[w][e] = "error"
    /\ SetRow(w, e, IF attempts[e] > MaxAttempts THEN "DEAD_LETTER"
                                                 ELSE "RETRYING")
    /\ UNCHANGED budget

MarkFailedMisspelt(w, e) ==
    /\ e \in batch[w]
    /\ outcome[w][e] = "error"
    /\ SetRow(w, e, IF attempts[e] >= MaxAttempts THEN "DEAD" ELSE "RETRYING")
    /\ UNCHANGED budget

MarkFailedForGood(w, e) ==
    /\ e \in batch[w]
    /\ outcome[w][e] = "error"
    /\ SetRow(w, e, "FAILED")
    /\ UNCHANGED budget

MarkFailed(w, e) ==
    /\ e \in batch[w]
    /\ outcome[w][e] = "error"
    /\ SetRow(w, e, IF attempts[e] >= MaxAttempts THEN "DEAD_LETTER"
                                                  ELSE "RETRYING")
    /\ UNCHANGED budget

\* release_lock(): the worker gives the event back without handling it.
ReleaseLock(w, e) ==
    /\ e \in batch[w]
    /\ outcome[w][e] = "none"
    /\ budget.releases > 0
    /\ budget' = [budget EXCEPT !.releases = @ - 1]
    /\ SetRow(w, e, "PENDING")

\* Mutant of Retry: takes back rows that a worker is processing.
RetryProcessing(e) ==
    /\ budget.retries > 0
    /\ status[e] \in {"FAILED", "DEAD_LETTER", "RETRYING", "PROCESSING"}
    /\ ~RowLocked(e)
    /\ status' = [status EXCEPT ![e] = "PENDING"]
    /\ attempts' = [attempts EXCEPT ![e] = 0]
    /\ failures' = [failures EXCEPT ![e] = 0]
    /\ budget' = [budget EXCEPT !.retries = @ - 1]
    /\ UNCHANGED <<owner, claimed, batch, outcome, delivered>>

\* retry(): the UPDATE waits while a worker's transaction has the row locked.
Retry(e) ==
    /\ budget.retries > 0
    /\ status[e] \in {"FAILED", "DEAD_LETTER", "RETRYING"}
    /\ ~RowLocked(e)
    /\ status' = [status EXCEPT ![e] = "PENDING"]
    /\ attempts' = [attempts EXCEPT ![e] = 0]
    /\ failures' = [failures EXCEPT ![e] = 0]
    /\ budget' = [budget EXCEPT !.retries = @ - 1]
    /\ UNCHANGED <<owner, claimed, batch, outcome, delivered>>

\* Mutant of Cleanup: deletes dead letters with the rest.
CleanupDeadLetters ==
    /\ \E e \in Events : status[e] \in {"PROCESSED", "EXPIRED", "DEAD_LETTER"}
    /\ status' = [e \in Events |->
                    IF status[e] \in {"PROCESSED", "EXPIRED", "DEAD_LETTER"}
                    THEN "DELETED" ELSE status[e]]
    /\ UNCHANGED <<attempts, owner, claimed, batch, outcome, delivered,
                   failures, budget>>

\* cleanup(): the age filter is commented out in the code.
Cleanup ==
    /\ \E e \in Events : status[e] \in {"PROCESSED", "EXPIRED"}
    /\ status' = [e \in Events |->
                    IF status[e] \in {"PROCESSED", "EXPIRED"} THEN "DELETED"
                    ELSE status[e]]
    /\ UNCHANGED <<attempts, owner, claimed, batch, outcome, delivered,
                   failures, budget>>

-----------------------------------------------------------------------------
(* The worker around it, as announced. *)

\* The handler is called and succeeds or raises.
Dispatch(w, e, result) ==
    /\ e \in batch[w]
    /\ outcome[w][e] = "none"
    /\ outcome' = [outcome EXCEPT ![w][e] = result]
    /\ delivered' = IF result = "ok" THEN delivered \cup {e} ELSE delivered
    /\ failures' = IF result = "error" THEN [failures EXCEPT ![e] = @ + 1]
                                       ELSE failures
    /\ UNCHANGED <<table, claimed, batch, budget>>

\* The process dies: an open transaction is rolled back, its memory is gone,
\* and the restarted worker begins with a new poll.
Crash(w) ==
    /\ ~Idle(w)
    /\ budget.crashes > 0
    /\ budget' = [budget EXCEPT !.crashes = @ - 1]
    /\ claimed' = [claimed EXCEPT ![w] = {}]
    /\ batch' = [batch EXCEPT ![w] = {}]
    /\ outcome' = [outcome EXCEPT ![w] = [e \in Events |-> "none"]]
    /\ UNCHANGED <<table, delivered, failures>>

\* What a live worker goes on doing: poll, lock, dispatch, record.
WorkerStep(w) ==
    \/ SelectBatch(w)
    \/ CommitBatch(w)
    \/ \E e \in Events, result \in {"ok", "error"} : Dispatch(w, e, result)
    \/ \E e \in Events : MarkProcessed(w, e)
    \/ \E e \in Events : MarkFailed(w, e)

Next ==
    \/ \E events \in SUBSET Events : Save(events)
    \/ \E w \in Workers : WorkerStep(w)
    \/ \E w \in Workers, e \in Events : ReleaseLock(w, e)
    \/ \E e \in Events : Retry(e)
    \/ Cleanup
    \/ \E w \in Workers : Crash(w)

Spec == Init /\ [][Next]_vars

\* The announced loop keeps running: the documentation's assumption, not a fact
\* of the code, where the task that celery beat fires does nothing.
LoopRuns == \A w \in Workers : WF_vars(WorkerStep(w))

FairSpec == Spec /\ LoopRuns

-----------------------------------------------------------------------------
(* Properties. *)

TypeOK ==
    /\ status \in [Events -> RowStatus \cup {"UNSAVED", "DELETED"}]
    /\ attempts \in [Events -> Nat]
    /\ owner \in [Events -> Workers \cup {Nobody}]
    /\ claimed \in [Workers -> SUBSET Events]
    /\ batch \in [Workers -> SUBSET Events]
    /\ outcome \in [Workers -> [Events -> Outcomes]]
    /\ delivered \subseteq Events
    /\ failures \in [Events -> Nat]
    /\ budget \in [releases : Nat, retries : Nat, crashes : Nat]

\* The table and the workers' memory agree on who works on what: an event in a
\* worker's batch is PROCESSING in that worker's name, so no two workers hand
\* the same event to its handler at the same time.
BatchesOwned ==
    \A w \in Workers : \A e \in batch[w] :
        status[e] = "PROCESSING" /\ owner[e] = w

\* Rows selected FOR UPDATE are still waiting, and locked once, when the UPDATE
\* turns them into PROCESSING: lock_batch() never takes a row twice although
\* the ids travel through the client between its two statements.
ClaimsExclusive ==
    \A w \in Workers : \A e \in claimed[w] :
        /\ status[e] \in {"PENDING", "RETRYING"}
        /\ \A v \in Workers \ {w} : e \notin claimed[v]

\* The attempts column counts at least the failed handler calls, and a handler
\* fails at most max_attempts times before the event is dead-lettered, however
\* polls, releases, retries and crashes interleave.
FailuresBounded ==
    \A e \in Events : failures[e] <= attempts[e] /\ failures[e] <= MaxAttempts

\* The outbox as the code that stores events sees it.
Promise == INSTANCE AtLeastOnce WITH
    open <- {e \in Events : status[e] \in {"PENDING", "PROCESSING", "FAILED",
                                           "RETRYING", "EXPIRED"}},
    done <- {e \in Events : status[e] \in {"PROCESSED", "DELETED"}},
    dead <- {e \in Events : status[e] = "DEAD_LETTER"}

\* An event is delivered before it is marked processed or cleaned up, is never
\* lost or resurrected, and no handler sees it once it is settled.
DeliversAtLeastOnce == Promise!Spec

Settled(e) == status[e] \in {"PROCESSED", "DELETED", "DEAD_LETTER"}

\* Stored events that are not settled, that no poll will select and that no
\* worker has in hand.
Stranded ==
    {e \in Events : /\ status[e] \in {"PROCESSING", "FAILED", "EXPIRED"}
                    /\ \A w \in Workers : e \notin batch[w]}

\* Only a crash takes an event out of circulation, and one crash at most the
\* batch of its worker: whatever polls, releases, retries and cleanups do, every
\* other event is settled, or waits where lock_batch() selects it, or is in the
\* hands of a worker that can still record its outcome.
StrandedByCrashes ==
    Cardinality(Stranded) <= BatchSize * (MaxCrashes - budget.crashes)

\* disaster_recovery.md:8, "start the worker; it resumes processing exactly
\* where it stopped": with workers that run the announced loop and restart after
\* a crash, every stored event is settled in the end.
WorkResumesAfterCrash ==
    \A e \in Events : status[e] = "PENDING" ~> Settled(e)

=============================================================================
