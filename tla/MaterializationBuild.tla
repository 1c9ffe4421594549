------------------------ MODULE MaterializationBuild ------------------------
(***************************************************************************)
(* The build side of dataset materialization: internal/materialization     *)
(* (the control store), internal/materializationworker (the worker loop)   *)
(* and internal/warehouse (the executor), for ONE dataset of one tenant.   *)
(*                                                                         *)
(* There are two stores.  The control database holds the build runs with   *)
(* their leases, the snapshots and the materialization rows; the warehouse *)
(* holds one physical table per run and the dataset's published view.  A   *)
(* worker writes the warehouse without any fence and the control database  *)
(* only under its lease, and Activate commits the warehouse switch just    *)
(* before the control transaction.                                         *)
(*                                                                         *)
(* Abstractions.                                                           *)
(*  - A run is a model value.  Its lease token is the number of the attempt*)
(*    that minted it: Claim draws a fresh random token exactly when it     *)
(*    increments attempt, so the two are equal together.                   *)
(*  - A lease is live or expired.  Heartbeat keeps a live lease live, which*)
(*    changes nothing here; that a heartbeat is refused is LoseLease.      *)
(*  - A materialization row is named by the run that inserted it; a table's*)
(*    content is the attempt that built it.  outputSnapshotHash hashes the *)
(*    run's id, so a snapshot hash is the id of the run that completed it. *)
(*  - schema_hash is a function of the published version, which is         *)
(*    immutable, so "same schema and same version" is "same version".      *)
(*  - A plan is one logical node followed by the MATERIALIZE node.         *)
(*  - A transaction that locks the run row is atomic.  During Activate the *)
(*    run row, the dataset row and the publication lock are held, so       *)
(*    nothing in the control database can come between its two commits; a  *)
(*    crash there is an outcome of its own (TornActivation).               *)
(*  - StartNode and FinishNode do not lock the run row.  Their one UPDATE  *)
(*    reads the lease in an EXISTS, and its write is committed later (READ *)
(*    COMMITTED) under the node's newest status alone: two steps.          *)
(***************************************************************************)
EXTENDS Naturals, FiniteSets

CONSTANTS
    Runs,         \* build runs that may ever be registered
    Workers,      \* worker processes
    NoRun,        \* "no run": a null foreign key, an absent view
    MaxAttempts,  \* max_attempts of every run
    MaxVersion,   \* bound: published versions of the dataset
    SharedPool    \* store.warehousePool == store.pool: one transaction for both

ASSUME BuildAssumption ==
    /\ NoRun \notin Runs
    /\ MaxAttempts \in Nat \ {0}
    /\ MaxVersion \in Nat \ {0}
    /\ SharedPool \in BOOLEAN

VARIABLES
    dataset,  \* platform.datasets and dataset_versions of the one dataset
    run,      \* platform.dataset_build_runs
    node,     \* platform.build_node_runs
    snap,     \* platform.materialization_snapshots, unique per build run
    mat,      \* platform.dataset_materializations
    table,    \* warehouse: the attempt whose rows the run's table holds, 0 absent
    view,     \* warehouse: the run whose table the published view selects
    retired,  \* warehouse: retired views, <<run in the name, run selected from>>
    worker    \* what each worker process holds in memory

control == <<dataset, run, node, snap, mat>>
warehouse == <<table, view, retired>>
vars == <<dataset, run, node, snap, mat, table, view, retired, worker>>

Attempts == 0..MaxAttempts
Versions == 0..MaxVersion         \* 0: no published version
RunRef == Runs \union {NoRun}
Nodes == {"TRANSFORM", "MATERIALIZE"}
NodeStatuses == {"PENDING", "RUNNING", "SUCCEEDED", "FAILED"}
RunStatuses == {"NONE", "QUEUED", "RUNNING", "SUCCEEDED", "FAILED", "CANCELLED"}
Steps == {"resolve", "begin", "transform", "transforming", "materialize", "build",
          "finish", "activate", "fail"}
\* The steps at which a node row is updated.
NodeSteps == {"transform", "transforming", "materialize", "finish"}

DatasetRecord == [deleted: BOOLEAN, current: Versions, latest: Versions,
                  published: SUBSET (1..MaxVersion)]
RunRecord == [status: RunStatuses, version: Versions, mode: {"FULL", "INCREMENTAL"},
              baseMat: RunRef, baseRun: RunRef, attempt: Attempts, expired: BOOLEAN]
SnapRecord == [state: {"NONE", "OPEN", "OK", "FAIL"}, mat: RunRef]
MatRecord == [status: {"NONE", "BUILDING", "ACTIVE", "RETIRED", "FAILED"},
              version: Versions, run: RunRef]
\* done: CompletedNodes of the claim has the logical node; seen: the node UPDATE
\* under way has found the lease.
WorkerRecord == [pc: Steps \union {"idle"}, run: RunRef, attempt: Attempts,
                 done: BOOLEAN, seen: BOOLEAN]

TypeOK ==
    /\ dataset \in DatasetRecord
    /\ run \in [Runs -> RunRecord]
    /\ node \in [Runs -> [Nodes -> NodeStatuses]]
    /\ snap \in [Runs -> SnapRecord]
    /\ mat \in [Runs -> MatRecord]
    /\ table \in [Runs -> Attempts]
    /\ view \in RunRef
    /\ retired \subseteq Runs \X Runs
    /\ worker \in [Workers -> WorkerRecord]

-----------------------------------------------------------------------------
(* Helpers: what the statements of the store read and write.               *)

Idle == [pc |-> "idle", run |-> NoRun, attempt |-> 0, done |-> FALSE, seen |-> FALSE]
Goto(w, step) == [worker EXCEPT ![w].pc = step, ![w].seen = FALSE]
Release(w) == [worker EXCEPT ![w] = Idle]

\* A terminal write clears the lease columns with the status.
Closed(r, status) ==
    [run EXCEPT ![r].status = status, ![r].expired = FALSE]

Terminal(r) == run[r].status \in {"SUCCEEDED", "FAILED", "CANCELLED"}
Unfinished(r) == run[r].status \in {"QUEUED", "RUNNING"}

OwnsIgnoringToken(w) ==
    /\ worker[w].pc # "idle"
    /\ run[worker[w].run].status = "RUNNING"
    /\ ~run[worker[w].run].expired
OwnsIgnoringStatus(w) ==
    /\ worker[w].pc # "idle"
    /\ run[worker[w].run].attempt = worker[w].attempt
\* assertLeaseTx, and the lease predicate of every node and run update.
Owns(w) ==
    LET r == worker[w].run IN
    /\ worker[w].pc # "idle"
    /\ run[r].status = "RUNNING"
    /\ ~run[r].expired
    /\ run[r].attempt = worker[w].attempt

\* The attempt budget Claim compares: the final attempt is the one that reaches it.
NoBudgetCheck(r) == TRUE
AttemptLeft(r) == run[r].attempt < MaxAttempts

\* The rows a Claim may pick, and the ones it closes first.
Claimable(r) ==
    /\ AttemptLeft(r)
    /\ run[r].status = "QUEUED" \/ (run[r].status = "RUNNING" /\ run[r].expired)
NeverExhausted(r) == FALSE
ExhaustedInAnyStatus(r) == ~AttemptLeft(r)
Exhausted(r) ==
    /\ ~AttemptLeft(r)
    /\ run[r].status = "RUNNING" /\ run[r].expired

Active == {m \in Runs : mat[m].status = "ACTIVE"}
\* build_run_id of the ACTIVE row, "" when there is none.
Served == IF Active = {} THEN NoRun ELSE mat[CHOOSE m \in Active : TRUE].run

BaseIgnored(r) == TRUE
\* Activate's comparison of the frozen base with the ACTIVE row it has locked.
BaseUnchanged(r) ==
    run[r].mode = "INCREMENTAL" =>
        /\ run[r].baseMat \in Active
        /\ mat[run[r].baseMat].run = run[r].baseRun

\* PostgreSQL refuses DROP TABLE while a view selects from the table.
NoDependency(t) == TRUE
Droppable(t) ==
    /\ view # t
    /\ \A name \in Runs : <<name, t>> \notin retired

-----------------------------------------------------------------------------
(* Publication and registration.                                           *)

Init ==
    /\ dataset = [deleted |-> FALSE, current |-> 0, latest |-> 0, published |-> {}]
    /\ run = [r \in Runs |-> [status |-> "NONE", version |-> 0, mode |-> "FULL",
                              baseMat |-> NoRun, baseRun |-> NoRun,
                              attempt |-> 0, expired |-> FALSE]]
    /\ node = [r \in Runs |-> [k \in Nodes |-> "PENDING"]]
    /\ snap = [r \in Runs |-> [state |-> "NONE", mat |-> NoRun]]
    /\ mat = [r \in Runs |-> [status |-> "NONE", version |-> 0, run |-> NoRun]]
    /\ table = [r \in Runs |-> 0]
    /\ view = NoRun
    /\ retired = {}
    /\ worker = [w \in Workers |-> Idle]

\* The next version is published and becomes current.  Older versions stay
\* PUBLISHED: only deletion deprecates them.
NextVersionPublished ==
    [dataset EXCEPT !.deleted = FALSE,
                    !.latest = dataset.latest + 1,
                    !.current = dataset.latest + 1,
                    !.published = @ \union {dataset.latest + 1}]

PublishVersion ==
    /\ ~dataset.deleted
    /\ dataset.latest < MaxVersion
    /\ dataset' = NextVersionPublished
    /\ UNCHANGED <<run, node, snap, mat, warehouse, worker>>

\* registerCurrentTx for a request no run has frozen yet.  A replay of a
\* registered request returns the existing run and changes nothing.  An
\* INCREMENTAL run freezes the ACTIVE row of the current version as its base.
Register(r, mode, base) ==
    /\ run[r].status = "NONE"
    /\ ~dataset.deleted /\ dataset.current # 0
    /\ IF mode = "INCREMENTAL"
       THEN /\ base \in Active
            /\ mat[base].version = dataset.current
            /\ snap[mat[base].run] = [state |-> "OK", mat |-> base]
       ELSE base = NoRun
    /\ run' = [run EXCEPT ![r] =
                 [status |-> "QUEUED", version |-> dataset.current, mode |-> mode,
                  baseMat |-> base,
                  baseRun |-> IF base = NoRun THEN NoRun ELSE mat[base].run,
                  attempt |-> 0, expired |-> FALSE]]
    /\ node' = [node EXCEPT ![r] = [k \in Nodes |-> "PENDING"]]
    /\ UNCHANGED <<dataset, snap, mat, warehouse, worker>>

\* CancelActive and platform.cancel_background_task: the run only; its
\* snapshot and BUILDING row stay as they are.
CancelActive(r) ==
    /\ ~dataset.deleted
    /\ Unfinished(r)
    /\ run' = Closed(r, "CANCELLED")
    /\ UNCHANGED <<dataset, node, snap, mat, warehouse, worker>>

-----------------------------------------------------------------------------
(* Leases.                                                                 *)

RunsClosedByClaim ==
    [r \in Runs |-> IF Exhausted(r)
                    THEN [run[r] EXCEPT !.status = "FAILED", !.expired = FALSE]
                    ELSE run[r]]

\* A reclaimed run keeps its logical checkpoints; everything else is redone.
NodesReset(r) ==
    [k \in Nodes |-> IF k # "MATERIALIZE" /\ node[r][k] = "SUCCEEDED"
                     THEN "SUCCEEDED" ELSE "PENDING"]

\* Claim closes every exhausted run, then leases one claimable run.
ClaimRun(w, r) ==
    /\ worker[w].pc = "idle"
    /\ Claimable(r)
    /\ run' = [RunsClosedByClaim EXCEPT ![r] =
                 [run[r] EXCEPT !.status = "RUNNING", !.expired = FALSE, !.attempt = @ + 1]]
    /\ node' = IF run[r].status = "RUNNING"
               THEN [node EXCEPT ![r] = NodesReset(r)] ELSE node
    /\ worker' = [worker EXCEPT ![w] =
                    [pc |-> "resolve", run |-> r, attempt |-> run[r].attempt + 1,
                     done |-> node'[r]["TRANSFORM"] = "SUCCEEDED", seen |-> FALSE]]
    /\ UNCHANGED <<dataset, snap, mat, warehouse>>

\* A Claim that finds nothing to lease still closes the exhausted runs.
ClaimNothing(w) ==
    /\ worker[w].pc = "idle"
    /\ \A r \in Runs : ~Claimable(r)
    /\ \E r \in Runs : Exhausted(r)
    /\ run' = RunsClosedByClaim
    /\ UNCHANGED <<dataset, node, snap, mat, warehouse, worker>>

\* lease_expires_at passes: the holder is dead, paused or cut off.
LeaseExpires(r) ==
    /\ run[r].status = "RUNNING" /\ ~run[r].expired
    /\ run' = [run EXCEPT ![r].expired = TRUE]
    /\ UNCHANGED <<dataset, node, snap, mat, warehouse, worker>>

\* A heartbeat or a fenced write is refused with ErrLeaseLost: the work
\* context is cancelled and the worker gives the run up.
LoseLease(w) ==
    /\ worker[w].pc # "idle"
    /\ ~Owns(w)
    /\ worker' = Release(w)
    /\ UNCHANGED <<control, warehouse>>

\* The process dies, is stopped, or meets a transport error it does not turn
\* into a failure: the run stays leased until the lease expires.
Crash(w) ==
    /\ worker[w].pc # "idle"
    /\ worker' = Release(w)
    /\ UNCHANGED <<control, warehouse>>

-----------------------------------------------------------------------------
(* ProcessNext after the claim: resolve, begin the snapshot, run the nodes,*)
(* activate, or fail.                                                      *)

\* Resolve accepts the run's version only while it is the current one, and an
\* incremental base only while it is still the one registered.
Resolve(w) ==
    LET r == worker[w].run IN
    /\ worker[w].pc = "resolve"
    /\ ~dataset.deleted /\ dataset.current = run[r].version
    /\ BaseUnchanged(r)
    /\ worker' = Goto(w, "begin")
    /\ UNCHANGED <<control, warehouse>>

\* An ExecutionError: the target, the base or an upstream dataset (outside this
\* model) is not as it was registered.
ResolveFails(w) ==
    /\ worker[w].pc = "resolve"
    /\ worker' = Goto(w, "fail")
    /\ UNCHANGED <<control, warehouse>>

AnyActive(r) == Active
\* The ACTIVE row a run may refresh in place: same version, same schema.
Reusable(r) == {m \in Active : mat[m].version = run[r].version}
Building == {m \in Runs : mat[m].status = "BUILDING"}

\* The nodes that follow: CompletedNodes skips a checkpointed logical node.
FirstNode(w) == IF worker[w].done THEN "materialize" ELSE "transform"

\* A retry continues the open snapshot of its run.
ResumeSnapshot(w) ==
    LET r == worker[w].run IN
    /\ worker[w].pc = "begin" /\ Owns(w)
    /\ snap[r].state = "OPEN"
    /\ worker' = Goto(w, FirstNode(w))
    /\ UNCHANGED <<control, warehouse>>

\* The snapshot of a same-version refresh hangs off the ACTIVE row.
BeginRefresh(w) ==
    LET r == worker[w].run IN
    /\ worker[w].pc = "begin" /\ Owns(w)
    /\ snap[r].state = "NONE"
    /\ \E m \in Reusable(r) : snap' = [snap EXCEPT ![r] = [state |-> "OPEN", mat |-> m]]
    /\ worker' = Goto(w, FirstNode(w))
    /\ UNCHANGED <<dataset, run, node, mat, warehouse>>

NoBuildingCheck == TRUE
NoneBuilding == Building = {}

\* Otherwise a BUILDING row is inserted, unless the dataset already has one.
BeginBuild(w) ==
    LET r == worker[w].run IN
    /\ worker[w].pc = "begin" /\ Owns(w)
    /\ snap[r].state = "NONE"
    /\ Reusable(r) = {}
    /\ NoneBuilding
    /\ mat' = [mat EXCEPT ![r] =
                 [status |-> "BUILDING", version |-> run[r].version, run |-> r]]
    /\ snap' = [snap EXCEPT ![r] = [state |-> "OPEN", mat |-> r]]
    /\ worker' = Goto(w, FirstNode(w))
    /\ UNCHANGED <<dataset, run, node, warehouse>>

\* ErrConflict is not an ExecutionError: ProcessNext returns it and leaves the
\* run leased.
BeginConflicts(w) ==
    LET r == worker[w].run IN
    /\ worker[w].pc = "begin" /\ Owns(w)
    /\ \/ snap[r].state \in {"OK", "FAIL"}
       \/ snap[r].state = "NONE" /\ Reusable(r) = {} /\ ~NoneBuilding
    /\ worker' = Release(w)
    /\ UNCHANGED <<control, warehouse>>

\* The node row a step updates, and the status the UPDATE asks of it.
NodeOf(step) == IF step \in {"transform", "transforming"} THEN "TRANSFORM" ELSE "MATERIALIZE"
Asked(step) == IF step \in {"transform", "materialize"} THEN "PENDING" ELSE "RUNNING"
NodeReady(w) ==
    /\ worker[w].pc \in NodeSteps
    /\ node[worker[w].run][NodeOf(worker[w].pc)] = Asked(worker[w].pc)

\* The UPDATE of StartNode or FinishNode has begun: its snapshot shows the row
\* and, through EXISTS, the lease.  The run row is not locked.
SeeLease(w) ==
    /\ NodeReady(w) /\ Owns(w)
    /\ ~worker[w].seen
    /\ worker' = [worker EXCEPT ![w].seen = TRUE]
    /\ UNCHANGED <<control, warehouse>>

\* It is committed: the row's own status has been compared once more, the lease
\* has not, so this may come after the next worker's claim.
CommitNode(w, status, next) ==
    /\ NodeReady(w) /\ worker[w].seen
    /\ node' = [node EXCEPT ![worker[w].run][NodeOf(worker[w].pc)] = status]
    /\ worker' = Goto(w, next)
    /\ UNCHANGED <<dataset, run, snap, mat, warehouse>>

StartTransform(w) ==
    worker[w].pc = "transform" /\ CommitNode(w, "RUNNING", "transforming")
FinishTransform(w) ==
    worker[w].pc = "transforming" /\ CommitNode(w, "SUCCEEDED", "materialize")
StartMaterialize(w) ==
    worker[w].pc = "materialize" /\ CommitNode(w, "RUNNING", "build")

\* No row was updated: ErrInvalidTransition (or ErrLeaseLost), which is no
\* ExecutionError, so that ProcessNext leaves the run leased.
NodeRefused(w) ==
    /\ worker[w].pc \in NodeSteps
    /\ ~NodeReady(w)
    /\ worker' = Release(w)
    /\ UNCHANGED <<control, warehouse>>

\* One warehouse transaction replaces the run's table.  Nothing in it looks at
\* the lease, so a worker that has lost its run can still execute it.
Build(w) ==
    LET r == worker[w].run IN
    /\ worker[w].pc = "build"
    /\ Droppable(r)
    /\ run[r].mode = "INCREMENTAL" => table[run[r].baseRun] # 0
    /\ table' = [table EXCEPT ![r] = worker[w].attempt]
    /\ worker' = Goto(w, "finish")
    /\ UNCHANGED <<control, view, retired>>

\* A refused DROP, a query error, a timeout or a failed grain check: the
\* transaction rolls back and the error becomes an ExecutionError.
BuildFails(w) ==
    /\ worker[w].pc = "build"
    /\ worker' = Goto(w, "fail")
    /\ UNCHANGED <<control, warehouse>>

FinishMaterialize(w) ==
    worker[w].pc = "finish" /\ CommitNode(w, "SUCCEEDED", "activate")

-----------------------------------------------------------------------------
(* Activate.                                                               *)

\* Its domain checks, in the control database.
Activatable(r) ==
    /\ ~dataset.deleted /\ run[r].version \in dataset.published
    /\ \A k \in Nodes : node[r][k] = "SUCCEEDED"
    /\ snap[r].state = "OPEN"
    /\ BaseUnchanged(r)
    /\ mat[snap[r].mat].status \in {"BUILDING", "ACTIVE"}

\* switchPublishedViewTx: the table exists, and a view exists exactly when the
\* control database had an ACTIVE row.
Switchable(r) ==
    /\ table[r] # 0
    /\ (Served = NoRun) <=> (view = NoRun)

\* The retired view is named after the run the control database served; an
\* earlier retired view may hold that name.
RetiredNameFree == view = NoRun \/ \A t \in Runs : <<Served, t>> \notin retired

DropOldView(r) == retired
\* The previous view is kept under its retired name.
RetireView(r) == IF view = NoRun THEN retired ELSE retired \union {<<Served, view>>}

SwitchPublishedView(r) ==
    /\ view' = r
    /\ retired' = RetireView(r)
    /\ UNCHANGED table

KeepOthers(m, r) ==
    [x \in Runs |->
       IF x = m THEN [mat[x] EXCEPT !.status = "ACTIVE", !.run = r] ELSE mat[x]]
\* Every other ACTIVE row retires; the snapshot's row becomes, or stays, ACTIVE
\* and points at this run.
RowsActivated(m, r) ==
    [x \in Runs |->
       IF x = m THEN [mat[x] EXCEPT !.status = "ACTIVE", !.run = r]
       ELSE IF mat[x].status = "ACTIVE" THEN [mat[x] EXCEPT !.status = "RETIRED"]
       ELSE mat[x]]

Activate(w) ==
    LET r == worker[w].run IN
    /\ worker[w].pc = "activate" /\ Owns(w)
    /\ Activatable(r) /\ Switchable(r) /\ RetiredNameFree
    /\ mat' = RowsActivated(snap[r].mat, r)
    /\ snap' = [snap EXCEPT ![r].state = "OK"]
    /\ run' = Closed(r, "SUCCEEDED")
    /\ SwitchPublishedView(r)
    /\ worker' = Release(w)
    /\ UNCHANGED <<dataset, node>>

\* The warehouse transaction has committed, the control transaction has not:
\* the process dies or loses the database between the two commits.
TornActivation(w) ==
    LET r == worker[w].run IN
    /\ ~SharedPool
    /\ worker[w].pc = "activate" /\ Owns(w)
    /\ Activatable(r) /\ Switchable(r) /\ RetiredNameFree
    /\ SwitchPublishedView(r)
    /\ worker' = Release(w)
    /\ UNCHANGED control

\* ErrConflict or ErrInvalidTransition: the worker closes the run with Fail.
ActivationRejected(w) ==
    LET r == worker[w].run IN
    /\ worker[w].pc = "activate" /\ Owns(w)
    /\ ~(Activatable(r) /\ Switchable(r))
    /\ worker' = Goto(w, "fail")
    /\ UNCHANGED <<control, warehouse>>

\* The rename hits an existing relation, which is no domain error: the run
\* stays leased.
RenameCollides(w) ==
    LET r == worker[w].run IN
    /\ worker[w].pc = "activate" /\ Owns(w)
    /\ Activatable(r) /\ Switchable(r) /\ ~RetiredNameFree
    /\ worker' = Release(w)
    /\ UNCHANGED <<control, warehouse>>

\* failSnapshotTx: an open snapshot completes as FAIL and its row, if it was
\* only being built, becomes FAILED.
FailSnapshot(r) ==
    LET m == snap[r].mat IN
    IF snap[r].state = "OPEN"
    THEN /\ snap' = [snap EXCEPT ![r].state = "FAIL"]
         /\ mat' = IF mat[m].status = "BUILDING"
                   THEN [mat EXCEPT ![m].status = "FAILED"] ELSE mat
    ELSE UNCHANGED <<snap, mat>>

Fail(w) ==
    LET r == worker[w].run IN
    /\ worker[w].pc = "fail" /\ Owns(w)
    /\ FailSnapshot(r)
    /\ node' = [node EXCEPT ![r] =
                  [k \in Nodes |-> IF node[r][k] = "RUNNING" THEN "FAILED" ELSE node[r][k]]]
    /\ run' = Closed(r, "FAILED")
    /\ worker' = Release(w)
    /\ UNCHANGED <<dataset, warehouse>>

-----------------------------------------------------------------------------
Request ==
    \E r \in Runs :
        \/ \E mode \in {"FULL", "INCREMENTAL"}, base \in RunRef : Register(r, mode, base)
        \/ CancelActive(r)

Claim(w) == ClaimNothing(w) \/ \E r \in Runs : ClaimRun(w, r)

\* What the worker's own code does next.
Work(w) ==
    \/ Resolve(w) \/ ResolveFails(w)
    \/ ResumeSnapshot(w) \/ BeginRefresh(w) \/ BeginBuild(w) \/ BeginConflicts(w)
    \/ SeeLease(w) \/ NodeRefused(w)
    \/ StartTransform(w) \/ FinishTransform(w) \/ StartMaterialize(w)
    \/ Build(w) \/ BuildFails(w) \/ FinishMaterialize(w)
    \/ Activate(w) \/ ActivationRejected(w) \/ RenameCollides(w)
    \/ Fail(w) \/ LoseLease(w)

Next ==
    \/ PublishVersion
    \/ Request
    \/ \E r \in Runs : LeaseExpires(r)
    \/ \E w \in Workers : Claim(w) \/ Work(w) \/ TornActivation(w) \/ Crash(w)

Spec == Init /\ [][Next]_vars

\* A lease nobody holds any more expires; a living holder may renew it forever.
OrphanExpires(r) ==
    /\ \A w \in Workers : ~(worker[w].run = r /\ Owns(w))
    /\ LeaseExpires(r)

\* cmd/worker polls every tenant on a ticker and each ProcessNext call runs to
\* its end: some worker keeps claiming, a worker keeps working, clocks advance.
Fairness ==
    /\ WF_vars(\E w \in Workers : Claim(w))
    /\ \A w \in Workers : WF_vars(Work(w))
    /\ \A r \in Runs : WF_vars(OrphanExpires(r))

FairSpec == Spec /\ Fairness

-----------------------------------------------------------------------------
(* Properties.                                                             *)

\* The run and its snapshot agree across the two tables: a run is SUCCEEDED
\* exactly when its snapshot completed OK (Activate), and a snapshot that
\* completed as FAIL belongs to a FAILED run (Fail); no cancellation, expiry or
\* late worker leaves a completed snapshot under another outcome.
OutcomeMatchesSnapshot ==
    \A r \in Runs :
        /\ run[r].status = "SUCCEEDED" <=> snap[r].state = "OK"
        /\ snap[r].state = "FAIL" => run[r].status = "FAILED"

\* The row m shows a finished build of its own version: its run SUCCEEDED, the
\* run's OK snapshot points back at the row, and the run's table exists and is
\* held by a view, so that no later DROP TABLE can take it away.
ShowsFinishedBuild(m) ==
    LET q == mat[m].run IN
    /\ q \in Runs
    /\ run[q].status = "SUCCEEDED" /\ run[q].version = mat[m].version
    /\ snap[q] = [state |-> "OK", mat |-> m]
    /\ table[q] # 0 /\ ~Droppable(q)

\* The row readers resolve is one finished build: at most one row is ACTIVE and
\* at most one BUILDING, and an ACTIVE row shows a finished build.
ActiveRowIsSound ==
    /\ \A m, n \in Active : m = n
    /\ \A m, n \in Building : m = n
    /\ \A m \in Active : ShowsFinishedBuild(m)

\* An open snapshot hangs off an existing row of its run's version; a row is
\* only ever inserted together with the snapshot of the run that inserts it
\* (what the proofs need to know of BeginSnapshot).
SnapshotNamesItsRow ==
    \A r \in Runs :
        /\ run[r].status = "NONE" => snap[r].state = "NONE"
        /\ mat[r].status # "NONE" => snap[r].state # "NONE"
        /\ snap[r].state = "OPEN" =>
             /\ snap[r].mat \in Runs
             /\ mat[snap[r].mat].status # "NONE"
             /\ mat[snap[r].mat].version = run[r].version

\* With one pool for both stores the published view and the ACTIVE row switch
\* in one transaction, so readers of either see the same build.
ViewFollowsActive == view = Served

\* A finished run stays as it finished, and so do its completed snapshot and
\* the row the snapshot hangs off (the immutability triggers state the same):
\* no late worker, cancellation or lease sweep rewrites an outcome.
OutcomeIsFinal ==
    [][\A r \in Runs :
         /\ Terminal(r) => run'[r] = run[r]
         /\ snap[r].state \in {"OK", "FAIL"} => snap'[r] = snap[r]
         /\ snap[r].state = "OPEN" => snap'[r].mat = snap[r].mat]_vars

\* The rows under an ACTIVE row never change while it points at the same run:
\* a stale attempt that still executes its warehouse transaction is stopped by
\* the view that depends on the table, even after a torn activation moved the
\* published view on.
ServedDataFrozen ==
    [][\A m \in Runs :
         m \in Active /\ m \in Active' /\ mat'[m].run = mat[m].run
            => table'[mat[m].run] = table[mat[m].run]]_vars

\* Once a run has been leased again, the earlier attempt's worker can no longer
\* change the control database, whatever step it resumes at, but for the one
\* node row whose UPDATE had found the lease before it was taken over.
SupersededWorkerWritesOneNode ==
    [][\A w \in Workers :
         /\ worker[w].pc # "idle" /\ worker[w].attempt # run[worker[w].run].attempt
         /\ worker'[w] # worker[w]
         => /\ UNCHANGED <<dataset, run, snap, mat>>
            /\ \A r \in Runs, k \in Nodes :
                 node'[r][k] # node[r][k]
                   => worker[w].seen /\ r = worker[w].run /\ k = NodeOf(worker[w].pc)]_vars

\* An INCREMENTAL build is published only over the very build it was computed
\* from: any publication in between makes it stale, and it is rejected rather
\* than overwriting the newer rows.
IncrementalOverItsBase ==
    [][Served' # Served /\ Served' # NoRun /\ run[Served'].mode = "INCREMENTAL"
         => Served = run[Served'].baseRun]_vars

\* Every registered run finishes, whatever crashes and expiries happen: the
\* attempt budget bounds the retries and the claim loop closes the last one.
EveryRunFinishes == \A r \in Runs : Unfinished(r) ~> Terminal(r)

\* What readers of the control database are promised, independent of workers,
\* leases and stores: see DatasetPublication.
Phase(r) ==
    CASE run[r].status = "NONE" -> "none"
      [] run[r].status \in {"QUEUED", "RUNNING"} -> "pending"
      [] run[r].status = "SUCCEEDED" -> "published"
      [] OTHER -> "aborted"

Publication ==
    INSTANCE DatasetPublication WITH phase <- [r \in Runs |-> Phase(r)], served <- Served

\* The build protocol implements the abstract publication of the dataset.
ImplementsPublication == Publication!Spec

=============================================================================
