------------------------ MODULE MaterializationCleanup ------------------------
(***************************************************************************)
(* Deletion of a materialized dataset and the leased cleanup that drops    *)
(* its warehouse relations, composed with the build side.                  *)
(*                                                                         *)
(* Deletion soft-deletes the dataset and arms ONE cleanup job per dataset  *)
(* with the number of relations to drop (internal/dataset,                 *)
(* materialization/cleanup.go).  A cleaner leases the job, loads the       *)
(* targets, drops them in one warehouse transaction and retires the rows   *)
(* in a later control transaction.  A mapped dataset may be regenerated    *)
(* under the same identity at any time, and built again, while the cleanup *)
(* of its previous life is still queued or under way.                      *)
(*                                                                         *)
(* Abstractions.  The lease token is a number that grows with every claim: *)
(* the code's tokens are fresh random UUIDs, and the attempt counter       *)
(* restarts when the job is armed again.  The backoff next_attempt_at is   *)
(* left out: time passes.  The layer of the dataset does not change.       *)
(***************************************************************************)
EXTENDS MaterializationBuild

CONSTANTS
    Cleaners,           \* goroutines that run ProcessNextDatasetMaterializationCleanup
    MaxCleanupAttempts  \* max_attempts of the cleanup job

\* Relations are counted, so there are finitely many builds to count.
ASSUME CleanupAssumption == MaxCleanupAttempts \in Nat \ {0} /\ IsFiniteSet(Runs)

VARIABLES
    job,     \* platform.dataset_materialization_cleanup_jobs, one row per dataset
    cleaner  \* what each cleaner holds in memory

cleanupVars == <<vars, job, cleaner>>

JobStatuses == {"NONE", "QUEUED", "RUNNING", "SUCCEEDED", "FAILED"}
\* Every deletion needs a new version after the one before, and arms the job once.
MaxToken == MaxVersion * MaxCleanupAttempts

Targets == [run: Runs, status: {"ACTIVE", "RETIRED"}]

CleanupTypeOK ==
    /\ TypeOK
    /\ job \in [status: JobStatuses, expected: 0..Cardinality(Runs),
                attempt: 0..MaxCleanupAttempts, token: 0..MaxToken,
                expired: BOOLEAN, armedAt: Versions]
    /\ cleaner \in [Cleaners ->
         [pc: {"idle", "load", "drop", "complete", "fail"}, token: 0..MaxToken,
          targets: SUBSET Targets]]

-----------------------------------------------------------------------------
CleanerIdle == [pc |-> "idle", token |-> 0, targets |-> {}]
CleanerGoes(c, step) == [cleaner EXCEPT ![c].pc = step]
CleanerStops(c) == [cleaner EXCEPT ![c] = CleanerIdle]

\* The lease columns are compared by token; some statements also ask for time.
AnyHolder(c) == job.status = "RUNNING"
HoldsToken(c) == job.status = "RUNNING" /\ job.token = cleaner[c].token
HoldsLease(c) == HoldsToken(c) /\ ~job.expired

\* Snapshots under an ACTIVE or RETIRED row: each names one physical table.
\* The served build is ACTIVE, every other snapshot of the row RETIRED.
CleanupTargets ==
    LET live == {r \in Runs : /\ snap[r].mat # NoRun
                              /\ mat[snap[r].mat].status \in {"ACTIVE", "RETIRED"}}
        current(r) == mat[snap[r].mat].status = "ACTIVE" /\ mat[snap[r].mat].run = r
    IN {[run |-> r, status |-> IF current(r) THEN "ACTIVE" ELSE "RETIRED"] : r \in live}

-----------------------------------------------------------------------------
CleanupInit ==
    /\ Init
    /\ job = [status |-> "NONE", expected |-> 0, attempt |-> 0, token |-> 0,
              expired |-> FALSE, armedAt |-> 0]
    /\ cleaner = [c \in Cleaners |-> CleanerIdle]

\* EnqueueDatasetMaterializationCleanupTx: no job when nothing is to be dropped,
\* and a RUNNING job is left as it is.
Rearmable == job.status # "RUNNING"
ArmCleanup ==
    IF CleanupTargets # {} /\ Rearmable
    THEN job' = [job EXCEPT !.status = "QUEUED", !.expected = Cardinality(CleanupTargets),
                            !.attempt = 0, !.expired = FALSE, !.armedAt = dataset.latest]
    ELSE UNCHANGED job

EveryRunCancelled ==
    [r \in Runs |-> [run[r] EXCEPT !.status = "CANCELLED", !.expired = FALSE]]
RunsCancelled ==
    [r \in Runs |-> IF Unfinished(r)
                    THEN [run[r] EXCEPT !.status = "CANCELLED", !.expired = FALSE]
                    ELSE run[r]]

\* Both callers refuse while a build is queued or running, so the cancellation
\* of unfinished builds in Enqueue finds none.
InUse == \E r \in Runs : Unfinished(r)
Delete ==
    /\ ~dataset.deleted /\ dataset.current # 0
    /\ ~InUse
    /\ ArmCleanup
    /\ run' = RunsCancelled
    /\ dataset' = [dataset EXCEPT !.deleted = TRUE, !.current = 0, !.published = {}]
    /\ UNCHANGED <<node, snap, mat, warehouse, worker, cleaner>>

\* Regeneration revives the identity and publishes its next version.
Regenerate ==
    /\ dataset.deleted
    /\ dataset.latest < MaxVersion
    /\ dataset' = NextVersionPublished
    /\ UNCHANGED <<run, node, snap, mat, warehouse, worker, job, cleaner>>

CleanupBudgetIgnored == TRUE
CleanupAttemptLeft == job.attempt < MaxCleanupAttempts

ClaimCleanup(c) ==
    /\ cleaner[c].pc = "idle"
    /\ CleanupAttemptLeft
    /\ job.status = "QUEUED" \/ (job.status = "RUNNING" /\ job.expired)
    /\ job' = [job EXCEPT !.status = "RUNNING", !.expired = FALSE,
                          !.attempt = @ + 1, !.token = @ + 1]
    /\ cleaner' = [cleaner EXCEPT ![c] =
                     [pc |-> "load", token |-> job.token + 1, targets |-> {}]]
    /\ UNCHANGED vars

\* There is no cleanup heartbeat: the lease may run out under a working cleaner.
CleanupLeaseExpires ==
    /\ job.status = "RUNNING" /\ ~job.expired
    /\ job' = [job EXCEPT !.expired = TRUE]
    /\ UNCHANGED <<vars, cleaner>>

\* The targets must be as many as the deletion counted.
CountIgnored(found) == TRUE
CountMatches(found) == Cardinality(found) = job.expected
LoadTargets(c) ==
    /\ cleaner[c].pc = "load"
    /\ IF HoldsLease(c) /\ CountMatches(CleanupTargets)
       THEN cleaner' = [cleaner EXCEPT ![c].pc = "drop", ![c].targets = CleanupTargets]
       ELSE cleaner' = CleanerGoes(c, "fail")
    /\ UNCHANGED <<vars, job>>

\* A target whose table is gone is skipped when it was retired, and otherwise
\* requires the published view to be gone as well.
Consistent(targets) ==
    \A t \in targets : t.status = "ACTIVE" /\ table[t.run] = 0 => view = NoRun

\* One warehouse transaction: each table goes with the views that depend on it.
DropTargets(c) ==
    LET dropped == {t.run : t \in {u \in cleaner[c].targets : table[u.run] # 0}} IN
    /\ cleaner[c].pc = "drop"
    /\ Consistent(cleaner[c].targets)
    /\ table' = [r \in Runs |-> IF r \in dropped THEN 0 ELSE table[r]]
    /\ view' = IF view \in dropped THEN NoRun ELSE view
    /\ retired' = {p \in retired : p[2] \notin dropped}
    /\ cleaner' = CleanerGoes(c, "complete")
    /\ UNCHANGED <<control, worker, job>>

\* An inconsistent relation or a warehouse error.
DropFails(c) ==
    /\ cleaner[c].pc = "drop"
    /\ cleaner' = CleanerGoes(c, "fail")
    /\ UNCHANGED <<vars, job>>

NoneRetired == UNCHANGED mat
\* Every ACTIVE row of the dataset retires, whichever version it belongs to.
AllRetired ==
    mat' = [m \in Runs |-> IF mat[m].status = "ACTIVE"
                           THEN [mat[m] EXCEPT !.status = "RETIRED"] ELSE mat[m]]

CompleteCleanup(c) ==
    /\ cleaner[c].pc = "complete" /\ HoldsLease(c)
    /\ AllRetired
    /\ job' = [job EXCEPT !.status = "SUCCEEDED"]
    /\ cleaner' = CleanerStops(c)
    /\ UNCHANGED <<dataset, run, node, snap, warehouse, worker>>

\* failCleanup does not ask whether the lease has expired.
FailCleanup(c) ==
    /\ cleaner[c].pc = "fail" /\ HoldsToken(c)
    /\ job' = [job EXCEPT !.status = IF job.attempt = MaxCleanupAttempts THEN "FAILED" ELSE "QUEUED",
                          !.expired = FALSE]
    /\ cleaner' = CleanerStops(c)
    /\ UNCHANGED vars

\* ErrLeaseLost from the last write, or the process dies.
CleanupLost(c) ==
    /\ \/ cleaner[c].pc = "complete" /\ ~HoldsLease(c)
       \/ cleaner[c].pc = "fail" /\ ~HoldsToken(c)
    /\ cleaner' = CleanerStops(c)
    /\ UNCHANGED <<vars, job>>
CleanerCrash(c) ==
    /\ cleaner[c].pc # "idle"
    /\ cleaner' = CleanerStops(c)
    /\ UNCHANGED <<vars, job>>

CleanerWork(c) ==
    \/ LoadTargets(c) \/ DropTargets(c) \/ DropFails(c)
    \/ CompleteCleanup(c) \/ FailCleanup(c) \/ CleanupLost(c)

CleanupNext ==
    \/ Next /\ UNCHANGED <<job, cleaner>>
    \/ Delete \/ Regenerate \/ CleanupLeaseExpires
    \/ \E c \in Cleaners : ClaimCleanup(c) \/ CleanerWork(c) \/ CleanerCrash(c)

CleanupSpec == CleanupInit /\ [][CleanupNext]_cleanupVars

-----------------------------------------------------------------------------
(* Properties.                                                             *)

\* A table that goes was built for a version that is no longer published: no
\* cleaner, however late, drops what a regenerated dataset has built.  That
\* rests on the recorded count, the only thing that ties the loaded targets to
\* the deletion that asked for them.
DropsOnlyWithdrawn ==
    [][\A r \in Runs :
         table[r] # 0 /\ table'[r] = 0 => run[r].version \notin dataset.published]_cleanupVars

\* After a cleanup armed by the latest deletion has succeeded, nothing of the
\* dataset can be read: no published or retired view, no ACTIVE row.
LastCleanupIsComplete ==
    job.status = "SUCCEEDED" /\ dataset.deleted /\ job.armedAt = dataset.latest
      => view = NoRun /\ retired = {} /\ Active = {}

\* A cleaner whose lease was taken over leaves the control database alone: it
\* neither closes the job of the next holder nor retires rows.
SupersededCleanerWritesNothing ==
    [][\A c \in Cleaners :
         (cleaner[c].pc # "idle" /\ cleaner[c].token # job.token)
           => (cleaner'[c] = cleaner[c] \/ UNCHANGED <<control, job>>)]_cleanupVars

\* Deletion and cleanup keep the abstract promise to readers of the control
\* database: a withdrawal besides the publications.
WithdrawableImplementsPublication == Publication!Spec
=============================================================================
