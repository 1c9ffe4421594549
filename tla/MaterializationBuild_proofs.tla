--------------------- MODULE MaterializationBuild_proofs ---------------------
(* Proofs about MaterializationBuild, for any number of runs, workers,     *)
(* attempts and versions and for both placements of the warehouse.         *)
EXTENDS MaterializationBuild, TLAPS

-----------------------------------------------------------------------------
(* Type correctness.  A worker that is not idle holds a run.               *)

\* A worker that is not idle holds a run (ClaimRun sets both, Release clears both).
WorkerHasRun == \A w \in Workers : worker[w].pc # "idle" => worker[w].run \in Runs

Typed == TypeOK /\ WorkerHasRun

\* Init builds empty tables, an empty warehouse and idle workers.
LEMMA InitTyped == Init => Typed
  <1> SUFFICES ASSUME Init PROVE Typed
    OBVIOUS
  <1>1. dataset \in DatasetRecord
    BY BuildAssumption DEF Init, DatasetRecord, Versions
  <1>2. run \in [Runs -> RunRecord]
    BY BuildAssumption DEF Init, RunRecord, Versions, RunStatuses, RunRef, Attempts
  <1>3. node \in [Runs -> [Nodes -> NodeStatuses]]
    BY DEF Init, Nodes, NodeStatuses
  <1>4. snap \in [Runs -> SnapRecord] /\ mat \in [Runs -> MatRecord]
    BY BuildAssumption DEF Init, SnapRecord, MatRecord, Versions, RunRef
  <1>5. table \in [Runs -> Attempts] /\ view \in RunRef /\ retired \subseteq Runs \X Runs
    BY BuildAssumption DEF Init, Attempts, RunRef
  <1>6. worker \in [Workers -> WorkerRecord] /\ WorkerHasRun
    BY BuildAssumption DEF Init, Idle, WorkerRecord, Steps, RunRef, Attempts, WorkerHasRun
  <1> QED
    BY <1>1, <1>2, <1>3, <1>4, <1>5, <1>6 DEF Typed, TypeOK

\* Goto and Release keep the worker table typed.
LEMMA WorkerMoves ==
  ASSUME Typed, NEW w \in Workers
  PROVE  /\ \A step \in Steps :
              worker[w].pc # "idle" /\ worker' = Goto(w, step)
                => worker' \in [Workers -> WorkerRecord] /\ WorkerHasRun'
         /\ worker' = Release(w) => worker' \in [Workers -> WorkerRecord] /\ WorkerHasRun'
  <1>1. ASSUME NEW step \in Steps, worker[w].pc # "idle", worker' = Goto(w, step)
        PROVE  worker' \in [Workers -> WorkerRecord] /\ WorkerHasRun'
    BY <1>1 DEF Typed, TypeOK, WorkerHasRun, Goto, WorkerRecord, Steps
  <1>2. ASSUME worker' = Release(w)
        PROVE  worker' \in [Workers -> WorkerRecord] /\ WorkerHasRun'
    BY <1>2, BuildAssumption
    DEF Typed, TypeOK, WorkerHasRun, Release, Idle, WorkerRecord, RunRef, Attempts
  <1> QED
    BY <1>1, <1>2

\* A terminal write keeps the run table typed.
LEMMA ClosedTyped ==
  ASSUME Typed, NEW r \in Runs, NEW status \in RunStatuses
  PROVE  Closed(r, status) \in [Runs -> RunRecord]
  BY DEF Typed, TypeOK, Closed, RunRecord

\* Publication, registration and cancellation.
LEMMA RequestTyped ==
  ASSUME Typed, PublishVersion \/ Request
  PROVE  Typed'
  <1>1. CASE PublishVersion
    <2>1. dataset.latest \in Versions /\ dataset.latest < MaxVersion
      BY <1>1 DEF PublishVersion, Typed, TypeOK, DatasetRecord
    <2>2. dataset.latest + 1 \in 1..MaxVersion
      BY <2>1, BuildAssumption DEF Versions
    <2>3. dataset.latest + 1 \in Versions
      BY <2>2 DEF Versions
    <2>4. dataset.published \union {dataset.latest + 1} \in SUBSET (1..MaxVersion)
      BY <2>2 DEF Typed, TypeOK, DatasetRecord
    <2>5. NextVersionPublished \in DatasetRecord
      BY <2>3, <2>4 DEF NextVersionPublished, Typed, TypeOK, DatasetRecord
    <2>6. dataset' \in DatasetRecord
      BY <1>1, <2>5 DEF PublishVersion
    <2> QED
      BY <1>1, <2>6 DEF PublishVersion, warehouse, Typed, TypeOK, WorkerHasRun
  <1>2. ASSUME NEW r \in Runs, NEW mode \in {"FULL", "INCREMENTAL"}, NEW base \in RunRef,
               Register(r, mode, base)
        PROVE  Typed'
    <2>1. (IF base = NoRun THEN NoRun ELSE mat[base].run) \in RunRef
      BY DEF Typed, TypeOK, RunRef, MatRecord
    <2>2. run' \in [Runs -> RunRecord]
      BY <1>2, <2>1, BuildAssumption
      DEF Register, Typed, TypeOK, RunRecord, DatasetRecord, RunStatuses, Attempts
    <2>3. node' \in [Runs -> [Nodes -> NodeStatuses]]
      BY <1>2 DEF Register, Typed, TypeOK, Nodes, NodeStatuses
    <2>4. UNCHANGED <<dataset, snap, mat, table, view, retired, worker>>
      BY <1>2 DEF Register, warehouse
    <2> QED
      BY <2>2, <2>3, <2>4 DEF Typed, TypeOK, WorkerHasRun
  <1>3. ASSUME NEW r \in Runs, CancelActive(r)
        PROVE  Typed'
    <2>1. run' \in [Runs -> RunRecord]
      BY <1>3, ClosedTyped DEF CancelActive, RunStatuses
    <2>2. UNCHANGED <<dataset, node, snap, mat, table, view, retired, worker>>
      BY <1>3 DEF CancelActive, warehouse
    <2> QED
      BY <2>1, <2>2 DEF Typed, TypeOK, WorkerHasRun
  <1> QED
    BY <1>1, <1>2, <1>3 DEF Request

\* What Claim hands to a worker is typed.
LEMMA ClaimedTyped ==
  ASSUME Typed, NEW r \in Runs, run[r].attempt + 1 \in Attempts
  PROVE  [pc |-> "resolve", run |-> r, attempt |-> run[r].attempt + 1,
          done |-> node'[r]["TRANSFORM"] = "SUCCEEDED", seen |-> FALSE] \in WorkerRecord
  BY DEF WorkerRecord, Steps, RunRef

\* Claims, expiry, lost leases and crashes.
LEMMA LeaseTyped ==
  ASSUME Typed,
         \/ \E r \in Runs : LeaseExpires(r)
         \/ \E w \in Workers : Claim(w) \/ LoseLease(w) \/ Crash(w)
  PROVE  Typed'
  <1>0. RunsClosedByClaim \in [Runs -> RunRecord]
    BY DEF RunsClosedByClaim, Typed, TypeOK, RunRecord, RunStatuses
  <1>1. ASSUME NEW w \in Workers, NEW r \in Runs, ClaimRun(w, r)
        PROVE  Typed'
    <2>1. run[r].attempt + 1 \in Attempts
      BY <1>1, BuildAssumption
      DEF ClaimRun, Claimable, AttemptLeft, Typed, TypeOK, RunRecord, Attempts
    <2>2. [run[r] EXCEPT !.status = "RUNNING", !.expired = FALSE, !.attempt = @ + 1]
            \in RunRecord
      BY <2>1 DEF Typed, TypeOK, RunRecord, RunStatuses
    <2>3. run' \in [Runs -> RunRecord]
      BY <1>0, <1>1, <2>2 DEF ClaimRun
    <2>4. NodesReset(r) \in [Nodes -> NodeStatuses]
      BY DEF NodesReset, Nodes, NodeStatuses
    <2>5. node' \in [Runs -> [Nodes -> NodeStatuses]]
      BY <1>1, <2>4 DEF ClaimRun, Typed, TypeOK
    <2>6. worker' \in [Workers -> WorkerRecord] /\ WorkerHasRun'
      BY <1>1, <2>1, ClaimedTyped
      DEF ClaimRun, Typed, TypeOK, WorkerHasRun, WorkerRecord, Steps, RunRef
    <2>7. UNCHANGED <<dataset, snap, mat, table, view, retired>>
      BY <1>1 DEF ClaimRun, warehouse
    <2> QED
      BY <2>3, <2>5, <2>6, <2>7 DEF Typed, TypeOK
  <1>2. ASSUME NEW w \in Workers, ClaimNothing(w)
        PROVE  Typed'
    BY <1>0, <1>2 DEF ClaimNothing, warehouse, Typed, TypeOK, WorkerHasRun
  <1>3. ASSUME NEW r \in Runs, LeaseExpires(r)
        PROVE  Typed'
    <2>1. run' \in [Runs -> RunRecord]
      BY <1>3 DEF LeaseExpires, Typed, TypeOK, RunRecord
    <2> QED
      BY <1>3, <2>1 DEF LeaseExpires, warehouse, Typed, TypeOK, WorkerHasRun
  <1>4. ASSUME NEW w \in Workers, LoseLease(w) \/ Crash(w)
        PROVE  Typed'
    BY <1>4, WorkerMoves DEF LoseLease, Crash, control, warehouse, Typed, TypeOK
  <1> QED
    BY <1>1, <1>2, <1>3, <1>4 DEF Claim

\* The steps of a worker that change only its place, a snapshot or a node.
LEMMA ResolveTyped ==
  ASSUME Typed, NEW w \in Workers,
         \/ Resolve(w) \/ ResolveFails(w) \/ ResumeSnapshot(w)
         \/ BeginConflicts(w) \/ BuildFails(w) \/ ActivationRejected(w) \/ RenameCollides(w)
         \/ NodeRefused(w)
  PROVE  Typed'
  <1>1. UNCHANGED <<dataset, run, node, snap, mat, table, view, retired>>
    BY DEF Resolve, ResolveFails, ResumeSnapshot, BeginConflicts, BuildFails,
           ActivationRejected, RenameCollides, NodeRefused, control, warehouse
  <1>2. worker[w].pc # "idle"
    BY DEF Resolve, ResolveFails, ResumeSnapshot, BeginConflicts, BuildFails,
           ActivationRejected, RenameCollides, NodeRefused, NodeSteps
  <1>3. worker' = Release(w) \/ \E step \in Steps : worker' = Goto(w, step)
    BY DEF Resolve, ResolveFails, ResumeSnapshot, BeginConflicts, BuildFails,
           ActivationRejected, RenameCollides, NodeRefused, FirstNode, Steps
  <1>4. worker' \in [Workers -> WorkerRecord] /\ WorkerHasRun'
    BY <1>2, <1>3, WorkerMoves
  <1> QED
    BY <1>1, <1>4 DEF Typed, TypeOK

\* SeeLease only marks its worker.
LEMMA SeeTyped ==
  ASSUME Typed, NEW w \in Workers, SeeLease(w)
  PROVE  Typed'
  <1>1. worker' \in [Workers -> WorkerRecord] /\ WorkerHasRun'
    BY DEF SeeLease, Typed, TypeOK, WorkerRecord, WorkerHasRun
  <1> QED
    BY <1>1 DEF SeeLease, control, warehouse, Typed, TypeOK

\* StartNode and FinishNode write legal node states and move their worker.
LEMMA NodeTyped ==
  ASSUME Typed, NEW w \in Workers,
         \/ StartTransform(w) \/ FinishTransform(w)
         \/ StartMaterialize(w) \/ FinishMaterialize(w)
  PROVE  Typed'
  <1>1. PICK s \in NodeStatuses, step \in Steps : CommitNode(w, s, step)
    BY DEF StartTransform, FinishTransform, StartMaterialize, FinishMaterialize,
           Steps, NodeStatuses
  <1>2. worker[w].run \in Runs /\ worker[w].pc # "idle" /\ NodeOf(worker[w].pc) \in Nodes
    BY <1>1 DEF CommitNode, NodeReady, NodeSteps, NodeOf, Nodes, Typed, WorkerHasRun
  <1>3. node' \in [Runs -> [Nodes -> NodeStatuses]]
    BY <1>1, <1>2 DEF CommitNode, Typed, TypeOK
  <1>4. worker' \in [Workers -> WorkerRecord] /\ WorkerHasRun'
    BY <1>1, <1>2, WorkerMoves DEF CommitNode
  <1> QED
    BY <1>1, <1>3, <1>4 DEF CommitNode, warehouse, Typed, TypeOK

\* BeginSnapshot opens a typed snapshot, on a typed row where it inserts one.
LEMMA SnapshotTyped ==
  ASSUME Typed, NEW w \in Workers, BeginRefresh(w) \/ BeginBuild(w)
  PROVE  Typed'
  <1> DEFINE r == worker[w].run
  <1>1. r \in Runs /\ worker[w].pc # "idle"
    BY DEF BeginRefresh, BeginBuild, Typed, WorkerHasRun
  <1>2. worker' \in [Workers -> WorkerRecord] /\ WorkerHasRun'
    BY <1>1, WorkerMoves DEF BeginRefresh, BeginBuild, FirstNode, Steps
  <1>3. CASE BeginRefresh(w)
    <2>1. \E m \in Runs : snap' = [snap EXCEPT ![r] = [state |-> "OPEN", mat |-> m]]
      BY <1>3 DEF BeginRefresh, Reusable, Active
    <2>2. snap' \in [Runs -> SnapRecord]
      BY <1>1, <2>1 DEF Typed, TypeOK, SnapRecord, RunRef
    <2> QED
      BY <1>2, <1>3, <2>2 DEF BeginRefresh, warehouse, Typed, TypeOK
  <1>4. CASE BeginBuild(w)
    <2>1. snap' \in [Runs -> SnapRecord]
      BY <1>1, <1>4 DEF BeginBuild, Typed, TypeOK, SnapRecord, RunRef
    <2>2. mat' \in [Runs -> MatRecord]
      BY <1>1, <1>4 DEF BeginBuild, Typed, TypeOK, MatRecord, RunRecord, RunRef
    <2> QED
      BY <1>2, <1>4, <2>1, <2>2 DEF BeginBuild, warehouse, Typed, TypeOK
  <1> QED
    BY <1>3, <1>4

\* Executor.Build records the attempt of its worker, a legal one.
LEMMA BuildTyped ==
  ASSUME Typed, NEW w \in Workers, Build(w)
  PROVE  Typed'
  <1>1. table' \in [Runs -> Attempts]
    BY DEF Build, Typed, TypeOK, WorkerRecord
  <1>2. worker' \in [Workers -> WorkerRecord] /\ WorkerHasRun'
    BY WorkerMoves DEF Build, Steps
  <1> QED
    BY <1>1, <1>2 DEF Build, control, Typed, TypeOK

\* The run the ACTIVE row points at.
LEMMA ServedTyped ==
  ASSUME Typed
  PROVE  Served \in RunRef
  <1>1. CASE Active = {}
    BY <1>1 DEF Served, RunRef
  <1>2. CASE Active # {}
    <2>1. (CHOOSE m \in Active : TRUE) \in Runs
      BY <1>2 DEF Active
    <2> QED
      BY <1>2, <2>1 DEF Served, Typed, TypeOK, MatRecord
  <1> QED
    BY <1>1, <1>2

\* The run a view is retired under exists, so the retired views are typed.
LEMMA SwitchTyped ==
  ASSUME Typed, NEW r \in Runs, Switchable(r), SwitchPublishedView(r)
  PROVE  /\ table' \in [Runs -> Attempts] /\ view' \in RunRef
         /\ retired' \subseteq Runs \X Runs
  <1>1. Served \in RunRef
    BY ServedTyped
  <1>2. view # NoRun => view \in Runs /\ Served \in Runs
    BY <1>1 DEF Switchable, Typed, TypeOK, RunRef
  <1> QED
    BY <1>2 DEF SwitchPublishedView, RetireView, Typed, TypeOK, RunRef

\* Activate's row updates keep the materialization table typed.
LEMMA RowsTyped ==
  ASSUME Typed, NEW m, NEW r \in Runs
  PROVE  RowsActivated(m, r) \in [Runs -> MatRecord]
  <1>1. ASSUME NEW x \in Runs
        PROVE  /\ [mat[x] EXCEPT !.status = "ACTIVE", !.run = r] \in MatRecord
               /\ [mat[x] EXCEPT !.status = "RETIRED"] \in MatRecord
               /\ mat[x] \in MatRecord
    BY DEF Typed, TypeOK, MatRecord, RunRef
  <1> QED
    BY <1>1 DEF RowsActivated

\* Activate, torn or whole, rejected or collided, keeps every table typed.
LEMMA ActivateTyped ==
  ASSUME Typed, NEW w \in Workers, Activate(w) \/ TornActivation(w)
  PROVE  Typed'
  <1> DEFINE r == worker[w].run
  <1>1. r \in Runs /\ worker[w].pc # "idle"
    BY DEF Activate, TornActivation, Typed, WorkerHasRun
  <1>2. worker' \in [Workers -> WorkerRecord] /\ WorkerHasRun'
    BY <1>1, WorkerMoves DEF Activate, TornActivation
  <1>3. /\ table' \in [Runs -> Attempts] /\ view' \in RunRef
        /\ retired' \subseteq Runs \X Runs
    BY <1>1, SwitchTyped DEF Activate, TornActivation
  <1>4. CASE TornActivation(w)
    BY <1>2, <1>3, <1>4 DEF TornActivation, control, Typed, TypeOK
  <1>5. CASE Activate(w)
    <2>1. mat' \in [Runs -> MatRecord]
      BY <1>1, <1>5, RowsTyped DEF Activate
    <2>2. snap' \in [Runs -> SnapRecord]
      BY <1>1, <1>5 DEF Activate, Typed, TypeOK, SnapRecord
    <2>3. run' \in [Runs -> RunRecord]
      BY <1>1, <1>5, ClosedTyped DEF Activate, RunStatuses
    <2> QED
      BY <1>2, <1>3, <1>5, <2>1, <2>2, <2>3 DEF Activate, Typed, TypeOK
  <1> QED
    BY <1>4, <1>5

\* Fail keeps every table typed.
LEMMA FailTyped ==
  ASSUME Typed, NEW w \in Workers, Fail(w)
  PROVE  Typed'
  <1> DEFINE r == worker[w].run
  <1>1. r \in Runs
    BY DEF Fail, Typed, WorkerHasRun
  <1>2. snap' \in [Runs -> SnapRecord] /\ mat' \in [Runs -> MatRecord]
    <2>1. snap' = snap \/ snap' = [snap EXCEPT ![r].state = "FAIL"]
      BY DEF Fail, FailSnapshot
    <2>2. mat' = mat \/ mat' = [mat EXCEPT ![snap[r].mat].status = "FAILED"]
      BY DEF Fail, FailSnapshot
    <2>3. snap' \in [Runs -> SnapRecord]
      BY <1>1, <2>1 DEF Typed, TypeOK, SnapRecord
    <2>4. \A x \in Runs : [mat[x] EXCEPT !.status = "FAILED"] \in MatRecord
      BY DEF Typed, TypeOK, MatRecord
    <2>5. mat' \in [Runs -> MatRecord]
      BY <2>2, <2>4 DEF Typed, TypeOK
    <2> QED
      BY <2>3, <2>5
  <1>3. node' \in [Runs -> [Nodes -> NodeStatuses]]
    BY <1>1 DEF Fail, Typed, TypeOK, NodeStatuses
  <1>4. run' \in [Runs -> RunRecord]
    BY <1>1, ClosedTyped DEF Fail, RunStatuses
  <1>5. worker' \in [Workers -> WorkerRecord] /\ WorkerHasRun'
    BY WorkerMoves DEF Fail
  <1> QED
    BY <1>2, <1>3, <1>4, <1>5 DEF Fail, warehouse, Typed, TypeOK

\* Every step keeps the state typed: one case per group of actions.
LEMMA StepTyped == Typed /\ [Next]_vars => Typed'
  <1> SUFFICES ASSUME Typed, [Next]_vars PROVE Typed'
    OBVIOUS
  <1>1. CASE UNCHANGED vars
    BY <1>1 DEF vars, Typed, TypeOK, WorkerHasRun
  <1>2. CASE PublishVersion \/ Request
    BY <1>2, RequestTyped
  <1>3. CASE \E r \in Runs : LeaseExpires(r)
    BY <1>3, LeaseTyped
  <1>4. ASSUME NEW w \in Workers, Claim(w) \/ Work(w) \/ TornActivation(w) \/ Crash(w)
        PROVE  Typed'
    BY <1>4, LeaseTyped, ResolveTyped, SeeTyped, NodeTyped, SnapshotTyped, BuildTyped, ActivateTyped,
       FailTyped DEF Work
  <1> QED
    BY <1>1, <1>2, <1>3, <1>4 DEF Next

\* Every state of the protocol is well typed: in particular no run is attempted
\* more often than max_attempts, which Claim's two budget tests guarantee.
THEOREM TypeCorrect == Spec => []TypeOK
  <1>1. Spec => []Typed
    BY InitTyped, StepTyped, PTL DEF Spec
  <1>2. Typed => TypeOK
    BY DEF Typed
  <1> QED
    BY <1>1, <1>2, PTL

-----------------------------------------------------------------------------
(* The inductive invariant.  What SnapshotNamesItsRow adds to the two      *)
(* properties is what Activate needs: the row it promotes has the run's    *)
(* version, and BeginBuild needs that the row it inserts is a new one.     *)

RowsAreSingle ==
  /\ \A m, n \in Active : m = n
  /\ \A m, n \in Building : m = n
EveryActiveShown == \A m \in Active : ShowsFinishedBuild(m)

\* The part that says nothing of the warehouse also survives a cleanup, which
\* drops tables under an ACTIVE row before it retires the row.
ControlInv == Typed /\ OutcomeMatchesSnapshot /\ SnapshotNamesItsRow /\ RowsAreSingle
IInv == ControlInv /\ EveryActiveShown

\* What a registration, claim, expiry or cancellation may do to the runs: it
\* finishes none with success and leaves finished ones and versions alone.
RunsAdvance ==
  \A r \in Runs :
    /\ Terminal(r) => run'[r] = run[r]
    /\ ~Terminal(r) => run'[r].status # "SUCCEEDED"
    /\ run[r].status # "NONE" =>
         run'[r].version = run[r].version /\ run'[r].status # "NONE"

\* No run, row or snapshot exists initially, so the invariant holds of none.
LEMMA InitInv == Init => IInv
  <1> SUFFICES ASSUME Init PROVE IInv
    OBVIOUS
  <1>1. Active = {} /\ Building = {}
    BY DEF Init, Active, Building
  <1>2. OutcomeMatchesSnapshot /\ SnapshotNamesItsRow
    BY DEF Init, OutcomeMatchesSnapshot, SnapshotNamesItsRow
  <1> QED
    BY <1>1, <1>2, InitTyped DEF IInv, ControlInv, RowsAreSingle, EveryActiveShown

\* The steps that touch neither the runs nor anything they publish.
LEMMA QuietStep ==
  ASSUME ControlInv, Typed', UNCHANGED <<run, snap, mat, table, view, retired>>
  PROVE  ControlInv' /\ (EveryActiveShown => EveryActiveShown')
  BY DEF ControlInv, OutcomeMatchesSnapshot, SnapshotNamesItsRow, RowsAreSingle,
         EveryActiveShown, ShowsFinishedBuild, Active, Building, Droppable

\* The steps that change the runs only.
LEMMA RunStep ==
  ASSUME ControlInv, Typed', RunsAdvance, UNCHANGED <<snap, mat, table, view, retired>>
  PROVE  ControlInv' /\ (EveryActiveShown => EveryActiveShown')
  <1>1. OutcomeMatchesSnapshot'
    BY DEF ControlInv, OutcomeMatchesSnapshot, RunsAdvance, Terminal
  <1>2. SnapshotNamesItsRow'
    BY DEF ControlInv, OutcomeMatchesSnapshot, SnapshotNamesItsRow, RunsAdvance, Terminal
  <1>3. \A m \in Active : ShowsFinishedBuild(m) => ShowsFinishedBuild(m)'
    BY DEF RunsAdvance, Terminal, ShowsFinishedBuild, Droppable
  <1>4. Active' = Active /\ Building' = Building
    BY DEF Active, Building
  <1> QED
    BY <1>1, <1>2, <1>3, <1>4 DEF ControlInv, RowsAreSingle, EveryActiveShown

\* Enough for RunsAdvance: one unfinished run moves on without succeeding.
LEMMA OneRunAdvances ==
  ASSUME NEW r \in Runs, ~Terminal(r), run'[r].status \notin {"NONE", "SUCCEEDED"},
         run[r].status # "NONE" => run'[r].version = run[r].version,
         \A x \in Runs \ {r} : run'[x] = run[x]
  PROVE  RunsAdvance
  <1> SUFFICES ASSUME NEW x \in Runs
               PROVE  /\ Terminal(x) => run'[x] = run[x]
                      /\ ~Terminal(x) => run'[x].status # "SUCCEEDED"
                      /\ run[x].status # "NONE" =>
                           run'[x].version = run[x].version /\ run'[x].status # "NONE"
    BY DEF RunsAdvance
  <1>1. CASE x = r
    BY <1>1
  <1>2. CASE x # r
    BY <1>2 DEF Terminal
  <1> QED
    BY <1>1, <1>2

\* Registration, cancellation and expiry are such steps.
LEMMA RequestsAdvance ==
  ASSUME Typed, NEW r \in Runs,
         \/ \E mode \in {"FULL", "INCREMENTAL"}, base \in RunRef : Register(r, mode, base)
         \/ CancelActive(r) \/ LeaseExpires(r)
  PROVE  RunsAdvance /\ UNCHANGED <<snap, mat, table, view, retired>>
  <1>1. UNCHANGED <<snap, mat, table, view, retired>>
    BY DEF Register, CancelActive, LeaseExpires, warehouse
  <1>2. ASSUME NEW mode, NEW base, Register(r, mode, base)
        PROVE  RunsAdvance
    <2>1. run[r].status = "NONE" /\ run'[r].status = "QUEUED"
      BY <1>2 DEF Register, Typed, TypeOK
    <2>2. \A x \in Runs \ {r} : run'[x] = run[x]
      BY <1>2 DEF Register, Typed, TypeOK
    <2> QED
      BY <2>1, <2>2, OneRunAdvances DEF Terminal
  <1>3. CASE CancelActive(r)
    <2>1. /\ run[r].status \in {"QUEUED", "RUNNING"}
          /\ run' = [run EXCEPT ![r].status = "CANCELLED", ![r].expired = FALSE]
      BY <1>3 DEF CancelActive, Unfinished, Closed
    <2>2. \A x \in Runs \ {r} : run'[x] = run[x]
      BY <2>1 DEF Typed, TypeOK
    <2>3. run'[r].status = "CANCELLED" /\ run'[r].version = run[r].version
      BY <2>1 DEF Typed, TypeOK, RunRecord
    <2> QED
      BY <1>1, <2>1, <2>2, <2>3, OneRunAdvances DEF Terminal
  <1>4. CASE LeaseExpires(r)
    <2>1. run[r].status = "RUNNING" /\ run'[r].status = "RUNNING"
      BY <1>4 DEF LeaseExpires, Typed, TypeOK, RunRecord
    <2>2. \A x \in Runs \ {r} : run'[x] = run[x]
      BY <1>4 DEF LeaseExpires, Typed, TypeOK
    <2>3. run'[r].version = run[r].version
      BY <1>4 DEF LeaseExpires, Typed, TypeOK, RunRecord
    <2> QED
      BY <1>1, <2>1, <2>2, <2>3, OneRunAdvances DEF Terminal
  <1> QED
    BY <1>1, <1>2, <1>3, <1>4

\* So is a claim, for the run it leases and for the exhausted ones it closes.
LEMMA ClaimsAdvance ==
  ASSUME Typed, NEW w \in Workers, Claim(w)
  PROVE  RunsAdvance /\ UNCHANGED <<snap, mat, table, view, retired>>
  <1>1. UNCHANGED <<snap, mat, table, view, retired>>
    BY DEF Claim, ClaimRun, ClaimNothing, warehouse
  <1>2. \A x \in Runs :
          \/ RunsClosedByClaim[x] = run[x]
          \/ /\ run[x].status = "RUNNING" /\ RunsClosedByClaim[x].status = "FAILED"
             /\ RunsClosedByClaim[x].version = run[x].version
    BY DEF RunsClosedByClaim, Exhausted, Typed, TypeOK, RunRecord
  <1>3. CASE ClaimNothing(w)
    BY <1>1, <1>2, <1>3 DEF ClaimNothing, RunsAdvance, Terminal
  <1>4. ASSUME NEW r \in Runs, ClaimRun(w, r)
        PROVE  RunsAdvance
    <2>1. \A x \in Runs \ {r} : run'[x] = RunsClosedByClaim[x]
      BY <1>4 DEF ClaimRun, RunsClosedByClaim
    <2>2. run[r].status \in {"QUEUED", "RUNNING"}
      BY <1>4 DEF ClaimRun, Claimable
    <2>3. run'[r].status = "RUNNING" /\ run'[r].version = run[r].version
      BY <1>4 DEF ClaimRun, RunsClosedByClaim, Typed, TypeOK, RunRecord
    <2> QED
      BY <1>2, <2>1, <2>2, <2>3 DEF RunsAdvance, Terminal
  <1> QED
    BY <1>1, <1>3, <1>4 DEF Claim

\* BeginSnapshot: a refresh opens a snapshot on the ACTIVE row ...
LEMMA RefreshStep ==
  ASSUME ControlInv, Typed', NEW w \in Workers, BeginRefresh(w)
  PROVE  ControlInv' /\ (EveryActiveShown => EveryActiveShown')
  <1> DEFINE r == worker[w].run
  <1>1. r \in Runs /\ run[r].status = "RUNNING" /\ snap[r].state = "NONE"
    BY DEF BeginRefresh, Owns, ControlInv, Typed, WorkerHasRun
  <1>2. PICK m \in Reusable(r) : snap' = [snap EXCEPT ![r] = [state |-> "OPEN", mat |-> m]]
    BY DEF BeginRefresh
  <1>3. m \in Runs /\ mat[m].status = "ACTIVE" /\ mat[m].version = run[r].version
    BY <1>2 DEF Reusable, Active
  <1>4. snap'[r] = [state |-> "OPEN", mat |-> m] /\ \A x \in Runs \ {r} : snap'[x] = snap[x]
    BY <1>1, <1>2 DEF ControlInv, Typed, TypeOK
  <1>5. UNCHANGED <<run, mat, table, view, retired>>
    BY DEF BeginRefresh, warehouse
  <1>6. OutcomeMatchesSnapshot'
    BY <1>1, <1>4, <1>5 DEF ControlInv, OutcomeMatchesSnapshot
  <1>7. SnapshotNamesItsRow'
    BY <1>1, <1>3, <1>4, <1>5 DEF ControlInv, SnapshotNamesItsRow
  <1>8. \A x \in Active : ShowsFinishedBuild(x) => ShowsFinishedBuild(x)'
    BY <1>1, <1>4, <1>5 DEF ShowsFinishedBuild, Droppable
  <1>9. Active' = Active /\ Building' = Building
    BY <1>5 DEF Active, Building
  <1> QED
    BY <1>6, <1>7, <1>8, <1>9 DEF ControlInv, RowsAreSingle, EveryActiveShown

\* ... and a first build inserts the row of its run with it.
LEMMA FirstBuildStep ==
  ASSUME ControlInv, Typed', NEW w \in Workers, BeginBuild(w)
  PROVE  ControlInv' /\ (EveryActiveShown => EveryActiveShown')
  <1> DEFINE r == worker[w].run
  <1>1. r \in Runs /\ run[r].status = "RUNNING" /\ snap[r].state = "NONE"
    BY DEF BeginBuild, Owns, ControlInv, Typed, WorkerHasRun
  <1>2. mat[r].status = "NONE" /\ Building = {}
    BY <1>1 DEF BeginBuild, NoneBuilding, ControlInv, SnapshotNamesItsRow
  <1>3. snap'[r] = [state |-> "OPEN", mat |-> r] /\ \A x \in Runs \ {r} : snap'[x] = snap[x]
    BY <1>1 DEF BeginBuild, ControlInv, Typed, TypeOK
  <1>4. /\ mat'[r] = [status |-> "BUILDING", version |-> run[r].version, run |-> r]
        /\ \A x \in Runs \ {r} : mat'[x] = mat[x]
    BY <1>1 DEF BeginBuild, ControlInv, Typed, TypeOK
  <1>5. UNCHANGED <<run, table, view, retired>>
    BY DEF BeginBuild, warehouse
  <1>6. OutcomeMatchesSnapshot'
    BY <1>1, <1>3, <1>5 DEF ControlInv, OutcomeMatchesSnapshot
  <1>7. SnapshotNamesItsRow'
    BY <1>1, <1>2, <1>3, <1>4, <1>5 DEF ControlInv, SnapshotNamesItsRow
  <1>8. Active' = Active /\ Building' = {r}
    BY <1>1, <1>2, <1>4 DEF Active, Building
  <1>9. \A x \in Active : ShowsFinishedBuild(x) => ShowsFinishedBuild(x)'
    BY <1>1, <1>2, <1>3, <1>4, <1>5 DEF ShowsFinishedBuild, Droppable, Active
  <1> QED
    BY <1>6, <1>7, <1>8, <1>9 DEF ControlInv, RowsAreSingle, EveryActiveShown

\* The warehouse transaction replaces a table no view holds: never a served one.
LEMMA BuildStep ==
  ASSUME ControlInv, Typed', NEW w \in Workers, Build(w)
  PROVE  ControlInv' /\ (EveryActiveShown => EveryActiveShown')
  <1> DEFINE r == worker[w].run
  <1>1. Droppable(r) /\ \A x \in Runs \ {r} : table'[x] = table[x]
    BY DEF Build, ControlInv, Typed, TypeOK
  <1>2. UNCHANGED <<run, snap, mat, view, retired>>
    BY DEF Build, control
  <1>3. \A x \in Active : ShowsFinishedBuild(x) => ShowsFinishedBuild(x)'
    <2> SUFFICES ASSUME NEW x \in Active, ShowsFinishedBuild(x)
                 PROVE  ShowsFinishedBuild(x)'
      OBVIOUS
    <2>1. mat[x].run \in Runs \ {r}
      BY <1>1 DEF ShowsFinishedBuild
    <2> QED
      BY <1>1, <1>2, <2>1 DEF ShowsFinishedBuild, Droppable
  <1>4. Active' = Active /\ Building' = Building
    BY <1>2 DEF Active, Building
  <1>5. OutcomeMatchesSnapshot' /\ SnapshotNamesItsRow'
    BY <1>2 DEF ControlInv, OutcomeMatchesSnapshot, SnapshotNamesItsRow
  <1> QED
    BY <1>3, <1>4, <1>5 DEF ControlInv, RowsAreSingle, EveryActiveShown

\* A table the view or a retired view holds before a switch is held after it.
LEMMA SwitchHolds ==
  ASSUME Typed, NEW r \in Runs, NEW t \in Runs, Switchable(r), SwitchPublishedView(r)
  PROVE  /\ ~Droppable(r)'
         /\ ~Droppable(t) => ~Droppable(t)'
  <1>1. Served \in RunRef
    BY ServedTyped
  <1>2. view = t => Served \in Runs /\ <<Served, t>> \in retired'
    BY <1>1, BuildAssumption DEF Switchable, SwitchPublishedView, RetireView, RunRef
  <1>3. retired \subseteq retired' /\ view' = r
    BY DEF SwitchPublishedView, RetireView
  <1> QED
    BY <1>2, <1>3 DEF Droppable

\* A torn activation moves the view only; what was served stays held.
LEMMA TornStep ==
  ASSUME ControlInv, Typed', NEW w \in Workers, TornActivation(w)
  PROVE  ControlInv' /\ (EveryActiveShown => EveryActiveShown')
  <1> DEFINE r == worker[w].run
  <1>1. r \in Runs /\ Switchable(r) /\ SwitchPublishedView(r)
    BY DEF TornActivation, ControlInv, Typed, WorkerHasRun
  <1>2. UNCHANGED <<run, snap, mat, table>>
    BY DEF TornActivation, control, SwitchPublishedView
  <1>3. \A t \in Runs : ~Droppable(t) => ~Droppable(t)'
    BY <1>1, SwitchHolds DEF ControlInv
  <1>4. \A x \in Active : ShowsFinishedBuild(x) => ShowsFinishedBuild(x)'
    BY <1>2, <1>3 DEF ShowsFinishedBuild
  <1>5. Active' = Active /\ Building' = Building
    BY <1>2 DEF Active, Building
  <1>6. OutcomeMatchesSnapshot' /\ SnapshotNamesItsRow'
    BY <1>2 DEF ControlInv, OutcomeMatchesSnapshot, SnapshotNamesItsRow
  <1> QED
    BY <1>4, <1>5, <1>6 DEF ControlInv, RowsAreSingle, EveryActiveShown

\* What Activate leaves in the control database: run r, row m.
ActivatedBy(r, m) ==
  /\ m \in Runs /\ mat[m].status \in {"BUILDING", "ACTIVE"}
  /\ run[r].status = "RUNNING" /\ snap[r].state = "OPEN" /\ snap[r].mat = m
  /\ mat[m].version = run[r].version
  /\ run'[r].status = "SUCCEEDED" /\ run'[r].version = run[r].version
  /\ \A x \in Runs \ {r} : run'[x] = run[x] /\ snap'[x] = snap[x]
  /\ snap'[r] = [state |-> "OK", mat |-> m]
  /\ mat'[m].status = "ACTIVE" /\ mat'[m].run = r
  /\ mat'[m].version = mat[m].version
  /\ \A x \in Runs \ {m} :
       /\ mat'[x].version = mat[x].version
       /\ mat'[x].status = IF mat[x].status = "ACTIVE" THEN "RETIRED" ELSE mat[x].status

\* Activate, field by field, in a state where the invariant holds.
LEMMA ActivateEffect ==
  ASSUME Typed, SnapshotNamesItsRow, NEW w \in Workers, Activate(w)
  PROVE  \E r \in Runs, m \in Runs : r = worker[w].run /\ ActivatedBy(r, m)
  <1>r. PICK r \in Runs : r = worker[w].run
    BY DEF Activate, Typed, WorkerHasRun
  <1>m. PICK m : m = snap[r].mat
    OBVIOUS
  <1>1. /\ run[r].status = "RUNNING" /\ snap[r].state = "OPEN"
        /\ mat[m].status \in {"BUILDING", "ACTIVE"}
    BY <1>r, <1>m DEF Activate, Owns, Activatable
  <1>2. m \in Runs /\ mat[m].version = run[r].version
    BY <1>1, <1>m DEF SnapshotNamesItsRow
  <1>3. /\ run'[r].status = "SUCCEEDED" /\ run'[r].version = run[r].version
        /\ \A x \in Runs \ {r} : run'[x] = run[x]
    <2>1. run' = [run EXCEPT ![r].status = "SUCCEEDED", ![r].expired = FALSE]
      BY <1>r DEF Activate, Closed
    <2> QED
      BY <2>1 DEF Typed, TypeOK, RunRecord
  <1>4. snap'[r] = [state |-> "OK", mat |-> m] /\ \A x \in Runs \ {r} : snap'[x] = snap[x]
    <2>1. snap' = [snap EXCEPT ![r].state = "OK"]
      BY <1>r DEF Activate
    <2> QED
      BY <1>m, <2>1 DEF Typed, TypeOK, SnapRecord
  <1>5. mat' = RowsActivated(m, r)
    BY <1>r, <1>m DEF Activate
  <1>6. mat'[m] = [mat[m] EXCEPT !.status = "ACTIVE", !.run = r]
    BY <1>2, <1>5 DEF RowsActivated
  <1>7. mat'[m].status = "ACTIVE" /\ mat'[m].run = r /\ mat'[m].version = mat[m].version
    BY <1>2, <1>6 DEF Typed, TypeOK, MatRecord
  <1>8. ASSUME NEW x \in Runs \ {m}
        PROVE  /\ mat'[x].version = mat[x].version
               /\ mat'[x].status = IF mat[x].status = "ACTIVE" THEN "RETIRED" ELSE mat[x].status
    <2>1. mat'[x] = IF mat[x].status = "ACTIVE"
                    THEN [mat[x] EXCEPT !.status = "RETIRED"] ELSE mat[x]
      BY <1>5 DEF RowsActivated
    <2> QED
      BY <2>1 DEF Typed, TypeOK, MatRecord
  <1> QED
    BY <1>r, <1>m, <1>1, <1>2, <1>3, <1>4, <1>7, <1>8 DEF ActivatedBy

\* Activate leaves exactly one ACTIVE row, and it shows the run's own build.
LEMMA ActivateStep ==
  ASSUME ControlInv, Typed', NEW w \in Workers, Activate(w)
  PROVE  ControlInv' /\ (EveryActiveShown => EveryActiveShown')
  <1>1. PICK r \in Runs, m \in Runs : r = worker[w].run /\ ActivatedBy(r, m)
    BY ActivateEffect DEF ControlInv
  <1>2. OutcomeMatchesSnapshot'
    BY <1>1 DEF ActivatedBy, ControlInv, OutcomeMatchesSnapshot
  <1>3. SnapshotNamesItsRow'
    <2>1. \A x \in Runs : mat'[x].version = mat[x].version
      BY <1>1 DEF ActivatedBy
    <2>2. \A x \in Runs : mat'[x].status = "NONE" <=> mat[x].status = "NONE"
      BY <1>1 DEF ActivatedBy
    <2>3. \A x \in Runs : run'[x].version = run[x].version
      BY <1>1 DEF ActivatedBy
    <2>4. \A x \in Runs : snap'[x].state = "OPEN" => snap'[x] = snap[x]
      BY <1>1 DEF ActivatedBy
    <2>5. \A x \in Runs : snap[x].state # "NONE" => snap'[x].state # "NONE"
      BY <1>1 DEF ActivatedBy
    <2>6. \A x \in Runs : run'[x].status = "NONE" => run[x].status = "NONE" /\ snap'[x] = snap[x]
      BY <1>1 DEF ActivatedBy
    <2> QED
      BY <2>1, <2>2, <2>3, <2>4, <2>5, <2>6 DEF ControlInv, SnapshotNamesItsRow
  <1>4. Active' = {m} /\ Building' \subseteq Building
    BY <1>1 DEF ActivatedBy, Active, Building
  <1>5. table[r] # 0 /\ table' = table /\ ~Droppable(r)'
    BY <1>1, SwitchHolds DEF Activate, Switchable, SwitchPublishedView, ControlInv
  <1>6. ShowsFinishedBuild(m)'
    BY <1>1, <1>5 DEF ActivatedBy, ShowsFinishedBuild
  <1> QED
    BY <1>2, <1>3, <1>4, <1>6 DEF ControlInv, RowsAreSingle, EveryActiveShown

\* Fail closes an open snapshot and, if it was only being built, its row.
LEMMA FailStep ==
  ASSUME ControlInv, Typed', NEW w \in Workers, Fail(w)
  PROVE  ControlInv' /\ (EveryActiveShown => EveryActiveShown')
  <1>1. PICK r \in Runs : r = worker[w].run
    BY DEF Fail, ControlInv, Typed, WorkerHasRun
  <1>2. UNCHANGED <<table, view, retired>>
    BY DEF Fail, warehouse
  <1>3. /\ run[r].status = "RUNNING" /\ run'[r].status = "FAILED"
        /\ run'[r].version = run[r].version
        /\ \A x \in Runs \ {r} : run'[x] = run[x]
    <2>1. run[r].status = "RUNNING" /\ run' = [run EXCEPT ![r].status = "FAILED", ![r].expired = FALSE]
      BY <1>1 DEF Fail, Owns, Closed
    <2> QED
      BY <2>1 DEF ControlInv, Typed, TypeOK, RunRecord
  <1>4. /\ \A x \in Runs \ {r} : snap'[x] = snap[x]
        /\ snap'[r].mat = snap[r].mat
        /\ snap'[r].state = IF snap[r].state = "OPEN" THEN "FAIL" ELSE snap[r].state
    <2>1. CASE snap[r].state = "OPEN"
      <3>1. snap' = [snap EXCEPT ![r].state = "FAIL"]
        BY <1>1, <2>1 DEF Fail, FailSnapshot
      <3> QED
        BY <2>1, <3>1 DEF ControlInv, Typed, TypeOK, SnapRecord
    <2>2. CASE snap[r].state # "OPEN"
      <3>1. snap' = snap
        BY <1>1, <2>2 DEF Fail, FailSnapshot
      <3> QED
        BY <2>2, <3>1
    <2> QED
      BY <2>1, <2>2
  <1>5. \A x \in Runs :
          \/ mat'[x] = mat[x]
          \/ /\ mat[x].status = "BUILDING" /\ mat'[x].status = "FAILED"
             /\ mat'[x].version = mat[x].version
    <2>1. PICK m : m = snap[r].mat
      OBVIOUS
    <2>2. CASE mat' = mat
      BY <2>2
    <2>3. CASE mat[m].status = "BUILDING" /\ mat' = [mat EXCEPT ![m].status = "FAILED"]
      <3> SUFFICES ASSUME NEW x \in Runs, mat'[x] # mat[x]
                   PROVE  /\ mat[x].status = "BUILDING" /\ mat'[x].status = "FAILED"
                          /\ mat'[x].version = mat[x].version
        OBVIOUS
      <3>1. x = m /\ mat'[x] = [mat[x] EXCEPT !.status = "FAILED"]
        BY <2>3 DEF ControlInv, Typed, TypeOK
      <3> QED
        BY <2>3, <3>1 DEF ControlInv, Typed, TypeOK, MatRecord
    <2> QED
      BY <1>1, <2>1, <2>2, <2>3 DEF Fail, FailSnapshot
  <1>6. OutcomeMatchesSnapshot'
    BY <1>3, <1>4 DEF ControlInv, OutcomeMatchesSnapshot
  <1>7. SnapshotNamesItsRow'
    BY <1>3, <1>4, <1>5 DEF ControlInv, SnapshotNamesItsRow
  <1>8. Active' = Active /\ Building' \subseteq Building
    BY <1>5 DEF Active, Building
  <1>9. ASSUME NEW x \in Active, ShowsFinishedBuild(x)
        PROVE  ShowsFinishedBuild(x)'
    <2>1. mat'[x] = mat[x]
      BY <1>5 DEF Active
    <2>2. run[mat[x].run].status = "SUCCEEDED" /\ mat[x].run # r
      BY <1>3, <1>9 DEF ShowsFinishedBuild
    <2> QED
      BY <1>2, <1>3, <1>4, <1>9, <2>1, <2>2 DEF ShowsFinishedBuild, Droppable
  <1> QED
    BY <1>6, <1>7, <1>8, <1>9 DEF ControlInv, RowsAreSingle, EveryActiveShown

\* The steps of workers that leave runs, snapshots, rows and warehouse alone.
QuietWork(w) ==
  \/ LoseLease(w) \/ Crash(w) \/ Resolve(w) \/ ResolveFails(w) \/ ResumeSnapshot(w)
  \/ BeginConflicts(w) \/ BuildFails(w) \/ ActivationRejected(w) \/ RenameCollides(w)
  \/ SeeLease(w) \/ NodeRefused(w)
  \/ StartTransform(w) \/ FinishTransform(w) \/ StartMaterialize(w) \/ FinishMaterialize(w)

\* The worker's bookkeeping steps leave runs, snapshots, rows and warehouse alone.
LEMMA QuietWorkUnchanged ==
  ASSUME NEW w \in Workers, QuietWork(w)
  PROVE  UNCHANGED <<run, snap, mat, table, view, retired>>
  BY DEF QuietWork, LoseLease, Crash, Resolve, ResolveFails, ResumeSnapshot, BeginConflicts,
         BuildFails, ActivationRejected, RenameCollides, StartTransform, FinishTransform,
         StartMaterialize, FinishMaterialize, CommitNode, SeeLease, NodeRefused, control, warehouse

\* Every step preserves the invariant: one case per group of actions.
LEMMA ControlStep ==
  ASSUME ControlInv, [Next]_vars
  PROVE  ControlInv' /\ (EveryActiveShown => EveryActiveShown')
  <1>1. Typed'
    BY StepTyped DEF ControlInv
  <1>2. CASE UNCHANGED vars \/ PublishVersion
    BY <1>1, <1>2, QuietStep DEF vars, PublishVersion, warehouse
  <1>3. CASE Request
    <2>1. PICK r \in Runs :
            \/ \E mode \in {"FULL", "INCREMENTAL"}, base \in RunRef : Register(r, mode, base)
            \/ CancelActive(r)
      BY <1>3 DEF Request
    <2> QED
      BY <1>1, <2>1, RequestsAdvance, RunStep DEF ControlInv
  <1>4. CASE \E r \in Runs : LeaseExpires(r)
    BY <1>1, <1>4, RequestsAdvance, RunStep DEF ControlInv
  <1>5. ASSUME NEW w \in Workers, Claim(w) \/ Work(w) \/ TornActivation(w) \/ Crash(w)
        PROVE  ControlInv' /\ (EveryActiveShown => EveryActiveShown')
    <2>1. CASE Claim(w)
      BY <1>1, <2>1, ClaimsAdvance, RunStep DEF ControlInv
    <2>2. CASE QuietWork(w)
      BY <1>1, <2>2, QuietWorkUnchanged, QuietStep
    <2>3. CASE BeginRefresh(w) \/ BeginBuild(w)
      BY <1>1, <2>3, RefreshStep, FirstBuildStep
    <2>4. CASE Build(w)
      BY <1>1, <2>4, BuildStep
    <2>5. CASE Activate(w) \/ TornActivation(w)
      BY <1>1, <2>5, ActivateStep, TornStep
    <2>6. CASE Fail(w)
      BY <1>1, <2>6, FailStep
    <2> QED
      BY <1>5, <2>1, <2>2, <2>3, <2>4, <2>5, <2>6 DEF Work, QuietWork
  <1> QED
    BY <1>2, <1>3, <1>4, <1>5 DEF Next

LEMMA StepInv == IInv /\ [Next]_vars => IInv'
  BY ControlStep DEF IInv

\* The invariant holds in every reachable state.
LEMMA InductiveInvariant == Spec => []IInv
  BY InitInv, StepInv, PTL DEF Spec

\* Runs and snapshots agree whatever is cancelled, expires or comes late
\* (Activate, Fail, CancelActive and the closing half of Claim).
THEOREM OutcomesMatch == Spec => []OutcomeMatchesSnapshot
  <1>1. IInv => OutcomeMatchesSnapshot
    BY DEF IInv, ControlInv
  <1> QED
    BY <1>1, InductiveInvariant, PTL

\* The ACTIVE row readers resolve is one finished build of its own version whose
\* table no DROP TABLE can take away, torn activations included (BeginSnapshot,
\* Executor.Build, Activate and switchPublishedViewTx).
THEOREM ActiveRowSound == Spec => []ActiveRowIsSound
  <1>1. IInv => ActiveRowIsSound
    BY DEF IInv, ControlInv, RowsAreSingle, EveryActiveShown, ActiveRowIsSound
  <1> QED
    BY <1>1, InductiveInvariant, PTL

-----------------------------------------------------------------------------
(* What a step may never do, and that every step is one of                 *)
(* DatasetPublication: the consequences of the inductive invariant.        *)

-----------------------------------------------------------------------------
(* Superseded workers.                                                     *)

\* The worker w works for a run that has been leased again since (Claim).
Superseded(w) ==
  worker[w].pc # "idle" /\ worker[w].attempt # run[worker[w].run].attempt

\* The one node row a superseded worker may still write.
ItsNode(w, r, k) == worker[w].seen /\ r = worker[w].run /\ k = NodeOf(worker[w].pc)

\* A step of another worker leaves this one's memory alone.
LEMMA OthersStay ==
  ASSUME Typed, NEW w \in Workers, NEW v \in Workers, v # w,
         Claim(v) \/ Work(v) \/ TornActivation(v) \/ Crash(v)
  PROVE  worker'[w] = worker[w]
  <1>1. CASE Claim(v)
    BY <1>1 DEF Claim, ClaimNothing, ClaimRun, Typed, TypeOK
  <1>2. CASE QuietWork(v)
    <2>1. worker' = Release(v) \/ (\E step : worker' = Goto(v, step))
            \/ worker' = [worker EXCEPT ![v].seen = TRUE]
      BY <1>2 DEF QuietWork, LoseLease, Crash, Resolve, ResolveFails, ResumeSnapshot,
         BeginConflicts, BuildFails, ActivationRejected, RenameCollides, StartTransform,
         FinishTransform, StartMaterialize, FinishMaterialize, CommitNode, SeeLease, NodeRefused
    <2> QED
      BY <2>1 DEF Goto, Release, Typed, TypeOK
  <1>3. CASE \/ BeginRefresh(v) \/ BeginBuild(v) \/ Build(v) \/ Activate(v)
             \/ TornActivation(v) \/ Fail(v)
    BY <1>3 DEF BeginRefresh, BeginBuild, Build, Activate, TornActivation, Fail, Goto, Release,
                Typed, TypeOK
  <1> QED
    BY <1>1, <1>2, <1>3 DEF Work, QuietWork

\* In one step a superseded worker moves itself, commits the node update that
\* had found the lease, or stays put.
LEMMA SupersededStep ==
  ASSUME Typed, [Next]_vars, NEW w \in Workers, Superseded(w), worker'[w] # worker[w]
  PROVE  /\ UNCHANGED <<dataset, run, snap, mat>>
         /\ \A r \in Runs, k \in Nodes : node'[r][k] # node[r][k] => ItsNode(w, r, k)
  <1>1. Claim(w) \/ Work(w) \/ TornActivation(w) \/ Crash(w)
    <2>1. CASE UNCHANGED vars \/ PublishVersion \/ Request \/ \E r \in Runs : LeaseExpires(r)
      BY <2>1 DEF vars, PublishVersion, Request, Register, CancelActive, LeaseExpires
    <2> QED
      BY <2>1, OthersStay DEF Next
  <1>2. ~Owns(w) /\ worker[w].pc # "idle"
    BY DEF Superseded, Owns
  <1>3. \/ /\ \/ Resolve(w) \/ ResolveFails(w) \/ LoseLease(w) \/ Crash(w)
           \/ Build(w) \/ BuildFails(w) \/ NodeRefused(w)
        \/ StartTransform(w) \/ FinishTransform(w) \/ StartMaterialize(w) \/ FinishMaterialize(w)
    BY <1>1, <1>2 DEF Claim, ClaimRun, ClaimNothing, Work, TornActivation, ResumeSnapshot,
       BeginRefresh, BeginBuild, BeginConflicts, SeeLease, Activate, ActivationRejected,
       RenameCollides, Fail
  <1>4. CASE \/ Resolve(w) \/ ResolveFails(w) \/ LoseLease(w) \/ Crash(w)
             \/ Build(w) \/ BuildFails(w) \/ NodeRefused(w)
    <2>1. UNCHANGED control
      BY <1>4 DEF Resolve, ResolveFails, LoseLease, Crash, Build, BuildFails, NodeRefused
    <2> QED
      BY <2>1 DEF control
  <1>5. CASE \/ StartTransform(w) \/ FinishTransform(w)
             \/ StartMaterialize(w) \/ FinishMaterialize(w)
    <2>1. PICK s, step : CommitNode(w, s, step)
      BY <1>5 DEF StartTransform, FinishTransform, StartMaterialize, FinishMaterialize
    <2> QED
      BY <2>1 DEF CommitNode, ItsNode, Typed, TypeOK
  <1> QED
    BY <1>3, <1>4, <1>5

\* The lease predicate of every node, snapshot and run update (assertLeaseTx)
\* shuts out the worker of an earlier attempt at whatever step it resumes; what
\* StartNode and FinishNode leave open, not locking the run, is one node row.
THEOREM SupersededWritesOneNode == Spec => SupersededWorkerWritesOneNode
  <1>1. Typed /\ [Next]_vars =>
          [\A w \in Workers :
             /\ worker[w].pc # "idle" /\ worker[w].attempt # run[worker[w].run].attempt
             /\ worker'[w] # worker[w]
             => /\ UNCHANGED <<dataset, run, snap, mat>>
                /\ \A r \in Runs, k \in Nodes :
                     node'[r][k] # node[r][k]
                       => worker[w].seen /\ r = worker[w].run /\ k = NodeOf(worker[w].pc)]_vars
    BY SupersededStep DEF Superseded, ItsNode
  <1>2. Spec => []Typed
    BY InitTyped, StepTyped, PTL DEF Spec
  <1> QED
    BY <1>1, <1>2, PTL DEF Spec, SupersededWorkerWritesOneNode

-----------------------------------------------------------------------------
(* Outcomes and served rows.  The steps are grouped by what they change:   *)
(* nothing that is published, runs only, or what follows.                  *)

\* The steps that change the runs only.
RunsOnly ==
  Request \/ (\E r \in Runs : LeaseExpires(r)) \/ \E w \in Workers : Claim(w)

\* Every step is of one of these kinds.
LEMMA StepKinds ==
  ASSUME Typed, [Next]_vars
  PROVE  \/ UNCHANGED <<run, snap, mat, table, view, retired>>
         \/ RunsOnly /\ RunsAdvance /\ UNCHANGED <<snap, mat, table, view, retired>>
         \/ \E w \in Workers : \/ BeginRefresh(w) \/ BeginBuild(w) \/ Build(w)
                               \/ Activate(w) \/ TornActivation(w) \/ Fail(w)
  <1>1. CASE UNCHANGED vars \/ PublishVersion
    BY <1>1 DEF vars, PublishVersion, warehouse
  <1>2. CASE Request \/ \E r \in Runs : LeaseExpires(r)
    <2>1. PICK r \in Runs :
            \/ \E mode \in {"FULL", "INCREMENTAL"}, base \in RunRef : Register(r, mode, base)
            \/ CancelActive(r) \/ LeaseExpires(r)
      BY <1>2 DEF Request
    <2> QED
      BY <1>2, <2>1, RequestsAdvance DEF RunsOnly
  <1>3. ASSUME NEW w \in Workers, Claim(w) \/ QuietWork(w)
        PROVE  \/ UNCHANGED <<run, snap, mat, table, view, retired>>
               \/ RunsOnly /\ RunsAdvance /\ UNCHANGED <<snap, mat, table, view, retired>>
    BY <1>3, ClaimsAdvance, QuietWorkUnchanged DEF RunsOnly
  <1> QED
    BY <1>1, <1>2, <1>3 DEF Next, Work, QuietWork

\* The six kinds that write snapshots, rows, tables or views, field by field.
LEMMA RefreshEffect ==
  ASSUME Typed, NEW w \in Workers, BeginRefresh(w) \/ BeginBuild(w)
  PROVE  \E r \in Runs :
           /\ run[r].status = "RUNNING" /\ snap[r].state = "NONE"
           /\ snap'[r].state = "OPEN"
           /\ \A x \in Runs \ {r} : snap'[x] = snap[x]
           /\ UNCHANGED <<run, table, view, retired>>
           /\ mat' = mat \/ (mat'[r].status = "BUILDING" /\ \A x \in Runs \ {r} : mat'[x] = mat[x])
  <1>1. PICK r \in Runs : r = worker[w].run
    BY DEF BeginRefresh, BeginBuild, Typed, WorkerHasRun
  <1>2. run[r].status = "RUNNING" /\ snap[r].state = "NONE"
    BY <1>1 DEF BeginRefresh, BeginBuild, Owns
  <1>3. UNCHANGED <<run, table, view, retired>>
    BY DEF BeginRefresh, BeginBuild, warehouse
  <1>4. \E m : snap' = [snap EXCEPT ![r] = [state |-> "OPEN", mat |-> m]]
    BY <1>1 DEF BeginRefresh, BeginBuild
  <1>5. snap'[r].state = "OPEN" /\ \A x \in Runs \ {r} : snap'[x] = snap[x]
    BY <1>4 DEF Typed, TypeOK
  <1>6. \/ mat' = mat
        \/ mat' = [mat EXCEPT ![r] = [status |-> "BUILDING", version |-> run[r].version, run |-> r]]
    BY <1>1 DEF BeginRefresh, BeginBuild
  <1>7. mat' = mat \/ (mat'[r].status = "BUILDING" /\ \A x \in Runs \ {r} : mat'[x] = mat[x])
    BY <1>6 DEF Typed, TypeOK
  <1> QED
    BY <1>2, <1>3, <1>5, <1>7

\* Fail, field by field.
LEMMA FailEffect ==
  ASSUME Typed, NEW w \in Workers, Fail(w)
  PROVE  \E r \in Runs :
           /\ run[r].status = "RUNNING" /\ run'[r].status = "FAILED"
           /\ \A x \in Runs \ {r} : run'[x] = run[x] /\ snap'[x] = snap[x]
           /\ snap'[r].mat = snap[r].mat
           /\ snap[r].state # "OPEN" => snap'[r] = snap[r]
           /\ UNCHANGED <<table, view, retired>>
           /\ Active' = Active /\ \A x \in Active : mat'[x] = mat[x]
  <1>1. PICK r \in Runs : r = worker[w].run
    BY DEF Fail, Typed, WorkerHasRun
  <1>2. run[r].status = "RUNNING" /\ run' = [run EXCEPT ![r].status = "FAILED", ![r].expired = FALSE]
    BY <1>1 DEF Fail, Owns, Closed
  <1>3. run'[r].status = "FAILED" /\ \A x \in Runs \ {r} : run'[x] = run[x]
    BY <1>2 DEF Typed, TypeOK, RunRecord
  <1>4. snap' = snap \/ (snap[r].state = "OPEN" /\ snap' = [snap EXCEPT ![r].state = "FAIL"])
    BY <1>1 DEF Fail, FailSnapshot
  <1>5. /\ \A x \in Runs \ {r} : snap'[x] = snap[x]
        /\ snap'[r].mat = snap[r].mat
        /\ snap[r].state # "OPEN" => snap'[r] = snap[r]
    BY <1>4 DEF Typed, TypeOK, SnapRecord
  <1>6. PICK m : m = snap[r].mat
    OBVIOUS
  <1>7. \/ mat' = mat
        \/ mat[m].status = "BUILDING" /\ mat' = [mat EXCEPT ![m].status = "FAILED"]
    BY <1>1, <1>6 DEF Fail, FailSnapshot
  <1>8. \A x \in Runs : x # m \/ mat' = mat => mat'[x] = mat[x]
    BY <1>7 DEF Typed, TypeOK
  <1>9. mat' = mat \/ (m \in Runs => mat'[m].status = "FAILED" /\ mat[m].status = "BUILDING")
    BY <1>7 DEF Typed, TypeOK, MatRecord
  <1>10. Active' = Active /\ \A x \in Active : mat'[x] = mat[x]
    BY <1>8, <1>9 DEF Active
  <1>11. UNCHANGED <<table, view, retired>>
    BY DEF Fail, warehouse
  <1> QED
    BY <1>2, <1>3, <1>5, <1>10, <1>11

\* What OutcomeIsFinal says of one step and one run.
Settled(r) ==
  /\ Terminal(r) => run'[r] = run[r]
  /\ snap[r].state \in {"OK", "FAIL"} => snap'[r] = snap[r]
  /\ snap[r].state = "OPEN" => snap'[r].mat = snap[r].mat

\* One step leaves finished runs, completed snapshots and snapshot rows alone.
LEMMA SettledStep ==
  ASSUME ControlInv, [Next]_vars, NEW x \in Runs
  PROVE  Settled(x)
  <1>1. CASE UNCHANGED <<run, snap, mat, table, view, retired>>
    BY <1>1 DEF Settled
  <1>2. CASE RunsOnly /\ RunsAdvance /\ UNCHANGED <<snap, mat, table, view, retired>>
    BY <1>2 DEF Settled, RunsAdvance
  <1>3. ASSUME NEW w \in Workers, BeginRefresh(w) \/ BeginBuild(w)
        PROVE  Settled(x)
    BY <1>3, RefreshEffect DEF ControlInv, Settled
  <1>4. ASSUME NEW w \in Workers, Build(w) \/ TornActivation(w)
        PROVE  Settled(x)
    BY <1>4 DEF Build, TornActivation, control, Settled
  <1>5. ASSUME NEW w \in Workers, Activate(w)
        PROVE  Settled(x)
    <2>1. PICK r \in Runs, m \in Runs : ActivatedBy(r, m)
      BY <1>5, ActivateEffect DEF ControlInv
    <2>2. /\ run[r].status = "RUNNING" /\ snap[r].state = "OPEN"
          /\ snap'[r].mat = snap[r].mat
          /\ \A y \in Runs \ {r} : run'[y] = run[y] /\ snap'[y] = snap[y]
      BY <2>1 DEF ActivatedBy
    <2> QED
      BY <2>2 DEF Settled, Terminal
  <1>6. ASSUME NEW w \in Workers, Fail(w)
        PROVE  Settled(x)
    <2>1. PICK r \in Runs :
            /\ run[r].status = "RUNNING"
            /\ \A y \in Runs \ {r} : run'[y] = run[y] /\ snap'[y] = snap[y]
            /\ snap'[r].mat = snap[r].mat
            /\ snap[r].state # "OPEN" => snap'[r] = snap[r]
      BY <1>6, FailEffect DEF ControlInv
    <2> QED
      BY <2>1 DEF Settled, Terminal
  <1> QED
    BY <1>1, <1>2, <1>3, <1>4, <1>5, <1>6, StepKinds DEF ControlInv

\* No late worker, cancellation or lease sweep rewrites an outcome.
THEOREM OutcomesFinal == Spec => OutcomeIsFinal
  <1>1. IInv /\ [Next]_vars =>
          [\A r \in Runs :
             /\ Terminal(r) => run'[r] = run[r]
             /\ snap[r].state \in {"OK", "FAIL"} => snap'[r] = snap[r]
             /\ snap[r].state = "OPEN" => snap'[r].mat = snap[r].mat]_vars
    BY SettledStep DEF Settled, IInv
  <1> QED
    BY <1>1, InductiveInvariant, PTL DEF Spec, OutcomeIsFinal

\* Only Build changes a table, and not one a view holds.
THEOREM ServedFrozen == Spec => ServedDataFrozen
  <1>1. ASSUME IInv, [Next]_vars, NEW m \in Active
        PROVE  table'[mat[m].run] = table[mat[m].run]
    <2>1. mat[m].run \in Runs /\ ~Droppable(mat[m].run)
      BY <1>1 DEF IInv, EveryActiveShown, ShowsFinishedBuild
    <2>2. ASSUME NEW w \in Workers, Build(w)
          PROVE  table'[mat[m].run] = table[mat[m].run]
      BY <2>1, <2>2 DEF Build, IInv, ControlInv, Typed, TypeOK
    <2>3. ASSUME NEW w \in Workers,
                 \/ BeginRefresh(w) \/ BeginBuild(w) \/ Activate(w) \/ TornActivation(w) \/ Fail(w)
          PROVE  table' = table
      BY <2>3 DEF BeginRefresh, BeginBuild, Activate, TornActivation, Fail, SwitchPublishedView,
         warehouse
    <2> QED
      BY <1>1, <2>2, <2>3, StepKinds DEF IInv, ControlInv
  <1>2. IInv /\ [Next]_vars =>
          [\A m \in Runs :
             m \in Active /\ m \in Active' /\ mat'[m].run = mat[m].run
               => table'[mat[m].run] = table[mat[m].run]]_vars
    BY <1>1
  <1> QED
    BY <1>2, InductiveInvariant, PTL DEF Spec, ServedDataFrozen

-----------------------------------------------------------------------------
(* The build that is served.  It changes only in Activate.                 *)

\* Served is the run of the ACTIVE row, when there is just one.
LEMMA ServedIs ==
  ASSUME NEW m, Active = {m}
  PROVE  Served = mat[m].run
  BY DEF Served

\* A step that keeps the ACTIVE rows and their runs keeps the served build.
LEMMA SameServed ==
  ASSUME Active' = Active, \A x \in Active : mat'[x] = mat[x]
  PROVE  Served' = Served
  <1>1. CASE Active = {}
    BY <1>1 DEF Served
  <1>2. CASE Active # {}
    <2>1. (CHOOSE m \in Active : TRUE) \in Active
      BY <1>2
    <2> QED
      BY <1>2, <2>1 DEF Served
  <1> QED
    BY <1>1, <1>2

\* How a step moves the runs and the served build: the steps of the abstract
\* publication in the terms of this module.
LEMMA ServedStep ==
  ASSUME ControlInv, [Next]_vars
  PROVE  \/ UNCHANGED <<run, view>> /\ Served' = Served
         \/ RunsOnly /\ RunsAdvance /\ UNCHANGED view /\ Served' = Served
         \/ ~SharedPool /\ UNCHANGED run /\ Served' = Served
         \/ \E r \in Runs :
              /\ run[r].status = "RUNNING" /\ run'[r].status = "FAILED"
              /\ \A x \in Runs \ {r} : run'[x] = run[x]
              /\ UNCHANGED view /\ Served' = Served
         \/ \E r \in Runs :
              /\ run[r].status = "RUNNING" /\ run'[r].status = "SUCCEEDED"
              /\ \A x \in Runs \ {r} : run'[x] = run[x]
              /\ run'[r].mode = run[r].mode /\ run'[r].baseRun = run[r].baseRun
              /\ view' = r /\ Served' = r
              /\ run[r].mode = "INCREMENTAL" => Served = run[r].baseRun
  <1>1. CASE UNCHANGED <<run, snap, mat, table, view, retired>>
    BY <1>1, SameServed DEF Active
  <1>2. CASE RunsOnly /\ RunsAdvance /\ UNCHANGED <<snap, mat, table, view, retired>>
    BY <1>2, SameServed DEF Active
  <1>3. ASSUME NEW w \in Workers, BeginRefresh(w) \/ BeginBuild(w)
        PROVE  UNCHANGED <<run, view>> /\ Served' = Served
    <2>1. PICK r \in Runs :
            /\ snap[r].state = "NONE"
            /\ UNCHANGED <<run, table, view, retired>>
            /\ mat' = mat \/ (mat'[r].status = "BUILDING" /\ \A x \in Runs \ {r} : mat'[x] = mat[x])
      BY <1>3, RefreshEffect DEF ControlInv
    <2>2. mat[r].status = "NONE"
      BY <2>1 DEF ControlInv, SnapshotNamesItsRow
    <2>3. Active' = Active /\ \A x \in Active : mat'[x] = mat[x]
      BY <2>1, <2>2 DEF Active
    <2> QED
      BY <2>1, <2>3, SameServed
  <1>4. ASSUME NEW w \in Workers, Build(w)
        PROVE  UNCHANGED <<run, view>> /\ Served' = Served
    BY <1>4, SameServed DEF Build, control, Active
  <1>5. ASSUME NEW w \in Workers, TornActivation(w)
        PROVE  ~SharedPool /\ UNCHANGED run /\ Served' = Served
    BY <1>5, SameServed DEF TornActivation, control, Active
  <1>6. ASSUME NEW w \in Workers, Fail(w)
        PROVE  \E r \in Runs :
                 /\ run[r].status = "RUNNING" /\ run'[r].status = "FAILED"
                 /\ \A x \in Runs \ {r} : run'[x] = run[x]
                 /\ UNCHANGED view /\ Served' = Served
    BY <1>6, FailEffect, SameServed DEF ControlInv
  <1>7. ASSUME NEW w \in Workers, Activate(w)
        PROVE  \E r \in Runs :
                 /\ run[r].status = "RUNNING" /\ run'[r].status = "SUCCEEDED"
                 /\ \A x \in Runs \ {r} : run'[x] = run[x]
                 /\ run'[r].mode = run[r].mode /\ run'[r].baseRun = run[r].baseRun
                 /\ view' = r /\ Served' = r
                 /\ run[r].mode = "INCREMENTAL" => Served = run[r].baseRun
    <2>1. PICK r \in Runs, m \in Runs : r = worker[w].run /\ ActivatedBy(r, m)
      BY <1>7, ActivateEffect DEF ControlInv
    <2>2. /\ run[r].status = "RUNNING" /\ run'[r].status = "SUCCEEDED"
          /\ \A x \in Runs \ {r} : run'[x] = run[x]
      BY <2>1 DEF ActivatedBy
    <2>3. Active' = {m} /\ mat'[m].run = r
      BY <2>1 DEF ActivatedBy, Active
    <2>4. Served' = r
      BY <2>3 DEF Served
    <2>5. run'[r].mode = run[r].mode /\ run'[r].baseRun = run[r].baseRun
      <3>1. run' = [run EXCEPT ![r].status = "SUCCEEDED", ![r].expired = FALSE]
        BY <1>7, <2>1 DEF Activate, Closed
      <3> QED
        BY <3>1 DEF ControlInv, Typed, TypeOK, RunRecord
    <2>6. ASSUME run[r].mode = "INCREMENTAL"
          PROVE  Served = run[r].baseRun
      <3>1. run[r].baseMat \in Active /\ mat[run[r].baseMat].run = run[r].baseRun
        BY <1>7, <2>1, <2>6 DEF Activate, Activatable, BaseUnchanged
      <3>2. Active = {run[r].baseMat}
        BY <3>1 DEF ControlInv, RowsAreSingle
      <3> QED
        BY <3>1, <3>2, ServedIs
    <2>7. view' = r
      BY <1>7, <2>1 DEF Activate, SwitchPublishedView
    <2> QED
      BY <2>2, <2>4, <2>5, <2>6, <2>7
  <1> QED
    BY <1>1, <1>2, <1>3, <1>4, <1>5, <1>6, <1>7, StepKinds DEF ControlInv

\* An incremental build is published only over the build it was computed from
\* (the comparison Activate repeats under the publication lock).
THEOREM IncrementalSound == Spec => IncrementalOverItsBase
  <1>1. ASSUME IInv, [Next]_vars, Served' # Served, run[Served'].mode = "INCREMENTAL"
        PROVE  Served = run[Served'].baseRun
    BY <1>1, ServedStep DEF IInv
  <1>2. IInv /\ [Next]_vars =>
          [Served' # Served /\ Served' # NoRun /\ run[Served'].mode = "INCREMENTAL"
             => Served = run[Served'].baseRun]_vars
    BY <1>1
  <1> QED
    BY <1>2, InductiveInvariant, PTL DEF Spec, IncrementalOverItsBase

\* With one pool for both stores (NewPostgresStore) the view and the ACTIVE row
\* never disagree: Activate switches both and nothing else moves either.
THEOREM ViewFollows == SharedPool => (Spec => []ViewFollowsActive)
  <1> SUFFICES ASSUME SharedPool PROVE Spec => []ViewFollowsActive
    OBVIOUS
  <1>1. Init => ViewFollowsActive
    BY DEF Init, ViewFollowsActive, Served, Active
  <1>2. IInv /\ [Next]_vars /\ ViewFollowsActive => ViewFollowsActive'
    BY ServedStep DEF ViewFollowsActive, IInv
  <1> QED
    BY <1>1, <1>2, InductiveInvariant, PTL DEF Spec

-----------------------------------------------------------------------------
(* Refinement: every step publishes, submits or aborts, or stutters.       *)

\* The phase of every run, as the abstract publication sees it.
phases == [r \in Runs |-> Phase(r)]

\* Runs that do not change keep their phases.
LEMMA SamePhases ==
  ASSUME UNCHANGED run
  PROVE  phases' = phases
  BY DEF phases, Phase

\* The runs of S leave the pending phase for good, the others keep theirs.
LEMMA Aborted ==
  ASSUME Served' = Served, NEW S \in SUBSET Runs,
         \A r \in S : Phase(r) = "pending" /\ Phase(r)' = "aborted",
         \A r \in Runs \ S : Phase(r)' = Phase(r)
  PROVE  Publication!Next
  <1>1. \A r \in S : phases[r] = "pending"
    BY DEF phases
  <1>2. phases' = [r \in Runs |-> IF r \in S THEN "aborted" ELSE phases[r]]
    BY DEF phases
  <1>3. Publication!Abort(S)
    BY <1>1, <1>2 DEF Publication!Abort, phases
  <1> QED
    BY <1>3 DEF Publication!Next

\* A step that changes runs only is a submission, an abortion or a stutter.
LEMMA RunsOnlyPublication ==
  ASSUME ControlInv, RunsOnly, Served' = Served
  PROVE  Publication!Next
  <1>1. ASSUME NEW r \in Runs, NEW mode, NEW base, Register(r, mode, base)
        PROVE  Publication!Next
    <2>1. Phase(r) = "none" /\ Phase(r)' = "pending"
      BY <1>1 DEF Register, Phase, ControlInv, Typed, TypeOK
    <2>2. \A x \in Runs \ {r} : Phase(x)' = Phase(x)
      BY <1>1 DEF Register, Phase, ControlInv, Typed, TypeOK
    <2>3. phases[r] = "none" /\ phases' = [phases EXCEPT ![r] = "pending"]
      BY <2>1, <2>2 DEF phases
    <2>4. Publication!Submit(r)
      BY <2>3 DEF Publication!Submit, phases
    <2> QED
      BY <2>4 DEF Publication!Next
  <1>2. ASSUME NEW r \in Runs, CancelActive(r)
        PROVE  Publication!Next
    <2>1. /\ run[r].status \in {"QUEUED", "RUNNING"}
          /\ run' = [run EXCEPT ![r].status = "CANCELLED", ![r].expired = FALSE]
      BY <1>2 DEF CancelActive, Unfinished, Closed
    <2>2. run'[r].status = "CANCELLED" /\ \A x \in Runs \ {r} : run'[x] = run[x]
      BY <2>1 DEF ControlInv, Typed, TypeOK, RunRecord
    <2>3. Phase(r) = "pending" /\ Phase(r)' = "aborted"
      BY <2>1, <2>2 DEF Phase
    <2>4. \A x \in Runs \ {r} : Phase(x)' = Phase(x)
      BY <2>2 DEF Phase
    <2> QED
      BY <2>3, <2>4, Aborted
  <1>3. ASSUME NEW r \in Runs, LeaseExpires(r)
        PROVE  Publication!Next
    <2>1. run[r].status = "RUNNING" /\ run' = [run EXCEPT ![r].expired = TRUE]
      BY <1>3 DEF LeaseExpires
    <2>2. run'[r].status = "RUNNING" /\ \A x \in Runs \ {r} : run'[x] = run[x]
      BY <2>1 DEF ControlInv, Typed, TypeOK, RunRecord
    <2>3. \A x \in Runs \ {} : Phase(x)' = Phase(x)
      BY <2>1, <2>2 DEF Phase
    <2>4. {} \in SUBSET Runs
      OBVIOUS
    <2> QED
      BY <2>3, <2>4, Aborted
  <1>4. ASSUME NEW w \in Workers, Claim(w)
        PROVE  Publication!Next
    <2> DEFINE S == {x \in Runs : Exhausted(x)}
    <2>1. \A x \in S : run[x].status = "RUNNING" /\ RunsClosedByClaim[x].status = "FAILED"
      BY DEF RunsClosedByClaim, Exhausted, ControlInv, Typed, TypeOK, RunRecord
    <2>2. \A x \in Runs \ S : RunsClosedByClaim[x] = run[x]
      BY DEF RunsClosedByClaim
    <2>3. CASE ClaimNothing(w)
      <3>1. run' = RunsClosedByClaim
        BY <2>3 DEF ClaimNothing
      <3> QED
        BY <2>1, <2>2, <3>1, Aborted DEF Phase
    <2>4. ASSUME NEW r \in Runs, ClaimRun(w, r)
          PROVE  Publication!Next
      <3>1. r \notin S /\ run[r].status \in {"QUEUED", "RUNNING"}
        BY <2>4 DEF ClaimRun, Claimable, Exhausted
      <3>2. \A x \in Runs \ {r} : run'[x] = RunsClosedByClaim[x]
        BY <2>4 DEF ClaimRun, RunsClosedByClaim
      <3>3. run'[r].status = "RUNNING"
        BY <2>4 DEF ClaimRun, RunsClosedByClaim, ControlInv, Typed, TypeOK, RunRecord
      <3>4. \A x \in S : Phase(x) = "pending" /\ Phase(x)' = "aborted"
        BY <2>1, <3>1, <3>2 DEF Phase
      <3>5. \A x \in Runs \ S : Phase(x)' = Phase(x)
        BY <2>2, <3>1, <3>2, <3>3 DEF Phase
      <3> QED
        BY <3>4, <3>5, Aborted
    <2> QED
      BY <1>4, <2>3, <2>4 DEF Claim
  <1> QED
    BY <1>1, <1>2, <1>3, <1>4 DEF RunsOnly, Request

\* Every step of the protocol is a step of the abstract publication, or a stutter.
LEMMA PublicationStep == ControlInv /\ [Next]_vars => [Publication!Next]_(Publication!pubVars)
  <1> SUFFICES ASSUME ControlInv, [Next]_vars
               PROVE  [Publication!Next]_(Publication!pubVars)
    OBVIOUS
  <1>1. CASE UNCHANGED run /\ Served' = Served
    BY <1>1, SamePhases DEF Publication!pubVars, phases
  <1>2. CASE RunsOnly /\ Served' = Served
    BY <1>2, RunsOnlyPublication
  <1>3. ASSUME NEW r \in Runs, run[r].status = "RUNNING", run'[r].status = "FAILED",
               \A x \in Runs \ {r} : run'[x] = run[x], Served' = Served
        PROVE  Publication!Next
    <2>1. Phase(r) = "pending" /\ Phase(r)' = "aborted"
      BY <1>3 DEF Phase
    <2>2. \A x \in Runs \ {r} : Phase(x)' = Phase(x)
      BY <1>3 DEF Phase
    <2> QED
      BY <1>3, <2>1, <2>2, Aborted
  <1>4. ASSUME NEW r \in Runs, run[r].status = "RUNNING", run'[r].status = "SUCCEEDED",
               \A x \in Runs \ {r} : run'[x] = run[x], Served' = r
        PROVE  Publication!Next
    <2>1. Phase(r) = "pending" /\ Phase(r)' = "published"
      BY <1>4 DEF Phase
    <2>2. \A x \in Runs \ {r} : Phase(x)' = Phase(x)
      BY <1>4 DEF Phase
    <2>3. phases[r] = "pending" /\ phases' = [phases EXCEPT ![r] = "published"]
      BY <2>1, <2>2 DEF phases
    <2>4. Publication!Publish(r)
      BY <1>4, <2>3 DEF Publication!Publish, phases
    <2> QED
      BY <2>4 DEF Publication!Next
  <1> QED
    BY <1>1, <1>2, <1>3, <1>4, ServedStep

\* The build protocol with its workers, leases, retries and two stores does what
\* readers of the control database are promised: each build ends once, and the
\* served build changes only when a pending build is published.
THEOREM PublicationImplemented == Spec => ImplementsPublication
  <1>1. Init => Publication!Init
    <2> SUFFICES ASSUME Init PROVE Publication!Init
      OBVIOUS
    <2>1. \A r \in Runs : Phase(r) = "none"
      BY DEF Init, Phase
    <2>2. Served = NoRun
      BY DEF Init, Served, Active
    <2> QED
      BY <2>1, <2>2 DEF Publication!Init
  <1>2. IInv => ControlInv
    BY DEF IInv
  <1> QED
    BY <1>1, <1>2, PublicationStep, InductiveInvariant, PTL
    DEF Spec, ImplementsPublication, Publication!Spec
=============================================================================
