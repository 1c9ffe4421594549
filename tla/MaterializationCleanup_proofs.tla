-------------------- MODULE MaterializationCleanup_proofs --------------------
(* Proofs about MaterializationCleanup, for any number of runs, workers,   *)
(* cleaners, attempts and versions.  They rest on the part of the build    *)
(* side's invariant that a cleanup keeps, ControlInv.                      *)
EXTENDS MaterializationCleanup, MaterializationBuild_proofs, FiniteSetTheorems

-----------------------------------------------------------------------------
(* What the build side does to the runs, versions and rows a cleanup reads.*)

\* The snapshot of r hangs off an ACTIVE or RETIRED row: r is a cleanup target.
Live(r) == snap[r].mat # NoRun /\ mat[snap[r].mat].status \in {"ACTIVE", "RETIRED"}
LiveRuns == {r \in Runs : Live(r)}

\* A snapshot not yet begun names no row, a begun one names a row, and a
\* refresh only ever hangs off a row that is live (BeginSnapshot).
SnapshotsHang ==
  \A r \in Runs :
    /\ snap[r].state = "NONE" => snap[r].mat = NoRun
    /\ snap[r].state # "NONE" => snap[r].mat \in Runs
    /\ snap[r].mat \in Runs /\ snap[r].mat # r => Live(r)

\* Only published versions are built, and deletion withdraws all of them.
VersionsKept ==
  /\ dataset.published \subseteq 1..dataset.latest
  /\ dataset.current # 0 => dataset.current \in dataset.published
  /\ dataset.deleted => dataset.published = {}
  /\ \A r \in Runs : /\ run[r].version <= dataset.latest
                     /\ Unfinished(r) => run[r].version \in dataset.published

\* A working worker is in its first attempt or a later one, so a table it has
\* built is not the absent one.
AttemptsCount == \A w \in Workers : worker[w].pc # "idle" => worker[w].attempt # 0

BuildKept == ControlInv /\ SnapshotsHang /\ VersionsKept /\ AttemptsCount

\* The dataset record changes only when a version is published.
LEMMA DatasetStep ==
  ASSUME [Next]_vars
  PROVE  UNCHANGED dataset \/ (PublishVersion /\ UNCHANGED <<run, snap, mat, warehouse, worker>>)
  <1>1. CASE UNCHANGED vars \/ PublishVersion
    BY <1>1 DEF vars, PublishVersion
  <1>2. CASE RunsOnly
    BY <1>2 DEF RunsOnly, Request, Register, CancelActive, LeaseExpires, Claim, ClaimNothing, ClaimRun
  <1>3. ASSUME NEW w \in Workers, QuietWork(w)
        PROVE  UNCHANGED dataset
    BY <1>3 DEF QuietWork, LoseLease, Crash, Resolve, ResolveFails, ResumeSnapshot, BeginConflicts,
       BuildFails, ActivationRejected, RenameCollides, StartTransform, FinishTransform,
       StartMaterialize, FinishMaterialize, CommitNode, SeeLease, NodeRefused, control
  <1>4. ASSUME NEW w \in Workers, \/ BeginRefresh(w) \/ BeginBuild(w) \/ Build(w)
                                  \/ Activate(w) \/ TornActivation(w) \/ Fail(w)
        PROVE  UNCHANGED dataset
    BY <1>4 DEF BeginRefresh, BeginBuild, Build, Activate, TornActivation, Fail, control
  <1> QED
    BY <1>1, <1>2, <1>3, <1>4 DEF Next, Work, QuietWork, RunsOnly

\* What a step may do to one run: register it for the current version, move it
\* on, or leave it; its version never changes afterwards.
RunMoves(r) ==
  \/ /\ run[r].status = "NONE" /\ ~dataset.deleted /\ dataset.current # 0
     /\ run'[r].version = dataset.current /\ UNCHANGED dataset
  \/ /\ run'[r].version = run[r].version
     /\ run'[r].status = "NONE" <=> run[r].status = "NONE"
     /\ Terminal(r) => run'[r] = run[r]

\* Every step of the build side does one of these to a run.
LEMMA RunsMove ==
  ASSUME Typed, [Next]_vars, NEW x \in Runs
  PROVE  RunMoves(x)
  <1>1. CASE UNCHANGED run
    BY <1>1 DEF RunMoves
  <1>2. CASE RunsOnly /\ RunsAdvance
    <2>1. ASSUME NEW r \in Runs, NEW mode, NEW base, Register(r, mode, base)
          PROVE  RunMoves(x)
      <3>1. CASE x = r
        BY <2>1, <3>1 DEF Register, RunMoves, Typed, TypeOK
      <3>2. CASE x # r
        BY <2>1, <3>2 DEF Register, RunMoves, Typed, TypeOK
      <3> QED
        BY <3>1, <3>2
    <2>2. ASSUME NEW r \in Runs, CancelActive(r) \/ LeaseExpires(r)
          PROVE  RunMoves(x)
      <3>1. run[r].status # "NONE" /\ \A y \in Runs \ {r} : run'[y] = run[y]
        BY <2>2 DEF CancelActive, LeaseExpires, Unfinished, Closed, Typed, TypeOK
      <3> QED
        BY <1>2, <3>1 DEF RunsAdvance, RunMoves
    <2>3. ASSUME NEW w \in Workers, ClaimNothing(w)
          PROVE  RunMoves(x)
      <3>1. run[x].status = "NONE" => run'[x] = run[x]
        BY <2>3 DEF ClaimNothing, RunsClosedByClaim, Exhausted
      <3> QED
        BY <1>2, <3>1 DEF RunsAdvance, RunMoves
    <2>4. ASSUME NEW w \in Workers, NEW r \in Runs, ClaimRun(w, r)
          PROVE  RunMoves(x)
      <3>1. run[x].status = "NONE" => run'[x] = run[x]
        BY <2>4 DEF ClaimRun, Claimable, RunsClosedByClaim, Exhausted
      <3> QED
        BY <1>2, <3>1 DEF RunsAdvance, RunMoves
    <2> QED
      BY <1>2, <2>1, <2>2, <2>3, <2>4 DEF RunsOnly, Request, Claim
  <1>3. ASSUME NEW w \in Workers, Activate(w) \/ Fail(w)
        PROVE  RunMoves(x)
    <2>1. PICK r \in Runs : r = worker[w].run
      BY <1>3 DEF Activate, Fail, Typed, WorkerHasRun
    <2>2. /\ run[r].status = "RUNNING"
          /\ \/ run' = [run EXCEPT ![r].status = "SUCCEEDED", ![r].expired = FALSE]
             \/ run' = [run EXCEPT ![r].status = "FAILED", ![r].expired = FALSE]
      BY <1>3, <2>1 DEF Activate, Fail, Owns, Closed
    <2> QED
      BY <2>2 DEF RunMoves, Terminal, Typed, TypeOK, RunRecord
  <1>4. ASSUME NEW w \in Workers, BeginRefresh(w) \/ BeginBuild(w) \/ Build(w) \/ TornActivation(w)
        PROVE  UNCHANGED run
    BY <1>4 DEF BeginRefresh, BeginBuild, Build, TornActivation, control
  <1> QED
    BY <1>1, <1>2, <1>3, <1>4, StepKinds

\* The build side keeps VersionsKept: it builds published versions only.
LEMMA VersionsStep ==
  ASSUME Typed, Typed', VersionsKept, [Next]_vars
  PROVE  VersionsKept' /\ dataset.latest <= dataset'.latest
  <1>1. dataset.latest \in Nat /\ \A r \in Runs : run[r].version \in Nat /\ run'[r].version \in Nat
    BY BuildAssumption DEF Typed, TypeOK, DatasetRecord, RunRecord, Versions
  <1>2. dataset'.published \subseteq 1..dataset'.latest
        /\ (dataset'.current # 0 => dataset'.current \in dataset'.published)
        /\ (dataset'.deleted => dataset'.published = {})
        /\ dataset.published \subseteq dataset'.published /\ dataset.latest <= dataset'.latest
    <2>1. CASE UNCHANGED dataset
      BY <1>1, <2>1 DEF VersionsKept
    <2>2. CASE PublishVersion
      <3>1. /\ dataset'.deleted = FALSE /\ dataset'.latest = dataset.latest + 1
            /\ dataset'.current = dataset.latest + 1
            /\ dataset'.published = dataset.published \union {dataset.latest + 1}
        BY <2>2 DEF PublishVersion, NextVersionPublished, Typed, TypeOK, DatasetRecord
      <3> QED
        BY <1>1, <3>1 DEF VersionsKept
    <2> QED
      BY <2>1, <2>2, DatasetStep
  <1>3. ASSUME NEW r \in Runs
        PROVE  /\ run'[r].version <= dataset'.latest
               /\ Unfinished(r)' => run'[r].version \in dataset'.published
    <2>1. CASE /\ run[r].status = "NONE" /\ ~dataset.deleted /\ dataset.current # 0
               /\ run'[r].version = dataset.current /\ UNCHANGED dataset
      BY <1>1, <2>1 DEF VersionsKept
    <2>2. CASE /\ run'[r].version = run[r].version
               /\ run'[r].status = "NONE" <=> run[r].status = "NONE"
               /\ Terminal(r) => run'[r] = run[r]
      <3>1. run[r].status \in RunStatuses /\ run'[r].status \in RunStatuses
        BY DEF Typed, TypeOK, RunRecord
      <3>2. Unfinished(r)' => Unfinished(r)
        BY <2>2, <3>1 DEF Unfinished, Terminal, RunStatuses
      <3>3. dataset'.latest \in Nat
        BY BuildAssumption DEF Typed, TypeOK, DatasetRecord, Versions
      <3> QED
        BY <1>1, <1>2, <2>2, <3>2, <3>3 DEF VersionsKept
    <2> QED
      BY <2>1, <2>2, RunsMove DEF RunMoves
  <1> QED
    BY <1>2, <1>3 DEF VersionsKept

\* Live runs stay live; a run becomes live while it is RUNNING, as a refresh of
\* the ACTIVE row or when its own new row is activated.
LEMMA LiveStep ==
  ASSUME ControlInv, SnapshotsHang, [Next]_vars
  PROVE  /\ SnapshotsHang'
         /\ \A x \in Runs : Live(x) => Live(x)'
         /\ \A x \in Runs : ~Live(x) /\ Live(x)' =>
              run[x].status = "RUNNING" /\ run'[x].version = run[x].version /\ UNCHANGED dataset
  <1> DEFINE Kept(x) == snap'[x] = snap[x] /\ (Live(x) <=> Live(x)')
  <1>k. ASSUME \A x \in Runs : Kept(x)
        PROVE  /\ SnapshotsHang'
               /\ \A x \in Runs : Live(x) => Live(x)'
               /\ \A x \in Runs : ~Live(x) /\ Live(x)' => FALSE
    BY <1>k DEF SnapshotsHang
  <1>1. CASE UNCHANGED <<run, snap, mat, table, view, retired>>
    BY <1>1, <1>k DEF Live
  <1>2. CASE RunsOnly /\ RunsAdvance /\ UNCHANGED <<snap, mat, table, view, retired>>
    BY <1>2, <1>k DEF Live
  <1>3. ASSUME NEW w \in Workers, Build(w) \/ TornActivation(w)
        PROVE  \A x \in Runs : Kept(x)
    BY <1>3 DEF Build, TornActivation, control, Live
  <1>4. ASSUME NEW w \in Workers, BeginRefresh(w)
        PROVE  /\ SnapshotsHang'
               /\ \A x \in Runs : Live(x) => Live(x)'
               /\ \A x \in Runs : ~Live(x) /\ Live(x)' =>
                    run[x].status = "RUNNING" /\ run'[x].version = run[x].version /\ UNCHANGED dataset
    <2>1. PICK r \in Runs : r = worker[w].run
      BY <1>4 DEF BeginRefresh, ControlInv, Typed, WorkerHasRun
    <2>2. PICK m \in Reusable(r) : snap' = [snap EXCEPT ![r] = [state |-> "OPEN", mat |-> m]]
      BY <1>4, <2>1 DEF BeginRefresh
    <2>3. m \in Runs /\ m # NoRun /\ mat[m].status = "ACTIVE"
      BY <2>2, BuildAssumption DEF Reusable, Active
    <2>4. snap'[r] = [state |-> "OPEN", mat |-> m] /\ \A x \in Runs \ {r} : snap'[x] = snap[x]
      BY <2>2 DEF ControlInv, Typed, TypeOK
    <2>5. run[r].status = "RUNNING" /\ UNCHANGED <<dataset, run, mat>>
      BY <1>4, <2>1 DEF BeginRefresh, Owns
    <2>6. Live(r)'
      BY <2>3, <2>4, <2>5 DEF Live
    <2>7. \A x \in Runs \ {r} : Live(x) <=> Live(x)'
      BY <2>4, <2>5 DEF Live
    <2> QED
      BY <2>3, <2>4, <2>5, <2>6, <2>7 DEF SnapshotsHang
  <1>5. ASSUME NEW w \in Workers, BeginBuild(w)
        PROVE  SnapshotsHang' /\ \A x \in Runs : Live(x) <=> Live(x)'
    <2>1. PICK r \in Runs : r = worker[w].run
      BY <1>5 DEF BeginBuild, ControlInv, Typed, WorkerHasRun
    <2>2. snap[r].state = "NONE"
      BY <1>5, <2>1 DEF BeginBuild
    <2>3. mat[r].status = "NONE" /\ snap[r].mat = NoRun
      BY <2>2 DEF ControlInv, SnapshotNamesItsRow, SnapshotsHang
    <2>4. snap'[r] = [state |-> "OPEN", mat |-> r] /\ \A x \in Runs \ {r} : snap'[x] = snap[x]
      BY <1>5, <2>1 DEF BeginBuild, ControlInv, Typed, TypeOK
    <2>5. mat'[r].status = "BUILDING" /\ \A x \in Runs \ {r} : mat'[x] = mat[x]
      BY <1>5, <2>1 DEF BeginBuild, ControlInv, Typed, TypeOK
    <2>6. ~Live(r) /\ ~Live(r)'
      BY <2>3, <2>4, <2>5 DEF Live
    <2>7. ASSUME NEW x \in Runs \ {r}
          PROVE  snap[x].mat # r /\ (Live(x) <=> Live(x)')
      <3>1. snap[x].mat # r
        BY <2>3 DEF SnapshotsHang, Live
      <3>2. snap[x].mat \in Runs \/ snap[x].mat = NoRun
        BY DEF SnapshotsHang, ControlInv, Typed, TypeOK, SnapRecord, RunRef
      <3> QED
        BY <2>4, <2>5, <3>1, <3>2 DEF Live
    <2> QED
      BY <2>4, <2>6, <2>7 DEF SnapshotsHang
  <1>6. ASSUME NEW w \in Workers, Activate(w)
        PROVE  /\ SnapshotsHang'
               /\ \A x \in Runs : Live(x) => Live(x)'
               /\ \A x \in Runs : ~Live(x) /\ Live(x)' =>
                    run[x].status = "RUNNING" /\ run'[x].version = run[x].version /\ UNCHANGED dataset
    <2>1. PICK r \in Runs, m \in Runs : ActivatedBy(r, m)
      BY <1>6, ActivateEffect DEF ControlInv
    <2>2. /\ run[r].status = "RUNNING" /\ run'[r].version = run[r].version
          /\ snap[r].mat = m /\ snap'[r].mat = m /\ snap'[r].state = "OK"
          /\ \A x \in Runs \ {r} : snap'[x] = snap[x]
      BY <2>1 DEF ActivatedBy
    <2>3. /\ mat'[m].status = "ACTIVE"
          /\ \A y \in Runs \ {m} : mat'[y].status \in {"ACTIVE", "RETIRED"}
                                     <=> mat[y].status \in {"ACTIVE", "RETIRED"}
      BY <2>1 DEF ActivatedBy
    <2>4. \A x \in Runs : snap[x].mat \in Runs \/ snap[x].mat = NoRun
      BY DEF SnapshotsHang, ControlInv, Typed, TypeOK, SnapRecord, RunRef
    <2>5. \A x \in Runs : snap'[x].mat = snap[x].mat
      BY <2>2
    <2>6. \A x \in Runs : snap[x].mat # m => (Live(x) <=> Live(x)')
      BY <2>3, <2>4, <2>5 DEF Live
    <2>7. \A x \in Runs : snap[x].mat = m => Live(x)'
      BY <2>3, <2>5, BuildAssumption DEF Live
    <2>8. \A x \in Runs : snap[x].mat = m /\ x # r => Live(x) \/ x = m
      BY DEF SnapshotsHang
    <2>9. r # m => Live(r) /\ mat[m].status \in {"ACTIVE", "RETIRED"}
      BY <2>2 DEF SnapshotsHang, Live
    <2>10. \A x \in Runs : ~Live(x) /\ Live(x)' => x = r
      BY <2>6, <2>8, <2>9, BuildAssumption DEF Live
    <2>11. UNCHANGED dataset
      BY <1>6 DEF Activate
    <2>12. SnapshotsHang'
      BY <2>2, <2>5, <2>6, <2>7 DEF SnapshotsHang
    <2> QED
      BY <2>2, <2>6, <2>7, <2>10, <2>11, <2>12
  <1>7. ASSUME NEW w \in Workers, Fail(w)
        PROVE  SnapshotsHang' /\ \A x \in Runs : Live(x) <=> Live(x)'
    <2>1. PICK r \in Runs : r = worker[w].run
      BY <1>7 DEF Fail, ControlInv, Typed, WorkerHasRun
    <2>2. /\ \A x \in Runs : snap'[x].mat = snap[x].mat
          /\ \A x \in Runs : snap'[x].state = "NONE" <=> snap[x].state = "NONE"
      <3>1. snap' = snap \/ (snap[r].state = "OPEN" /\ snap' = [snap EXCEPT ![r].state = "FAIL"])
        BY <1>7, <2>1 DEF Fail, FailSnapshot
      <3>2. \A x \in Runs \ {r} : snap'[x] = snap[x]
        BY <3>1 DEF ControlInv, Typed, TypeOK
      <3>3. snap'[r].mat = snap[r].mat /\ (snap'[r].state = "NONE" <=> snap[r].state = "NONE")
        BY <3>1 DEF ControlInv, Typed, TypeOK, SnapRecord
      <3> QED
        BY <3>2, <3>3
    <2>3. \A y \in Runs : mat'[y].status \in {"ACTIVE", "RETIRED"} <=> mat[y].status \in {"ACTIVE", "RETIRED"}
      <3>1. PICK m : m = snap[r].mat
        OBVIOUS
      <3>2. \/ mat' = mat
            \/ mat[m].status = "BUILDING" /\ mat' = [mat EXCEPT ![m].status = "FAILED"]
        BY <1>7, <2>1, <3>1 DEF Fail, FailSnapshot
      <3>3. \A y \in Runs : y # m \/ mat' = mat => mat'[y] = mat[y]
        BY <3>2 DEF ControlInv, Typed, TypeOK
      <3>4. mat' = mat \/ (m \in Runs => mat'[m].status = "FAILED" /\ mat[m].status = "BUILDING")
        BY <3>2 DEF ControlInv, Typed, TypeOK, MatRecord
      <3> QED
        BY <3>3, <3>4
    <2>4. \A x \in Runs : snap[x].mat \in Runs \/ snap[x].mat = NoRun
      BY DEF SnapshotsHang, ControlInv, Typed, TypeOK, SnapRecord, RunRef
    <2>5. \A x \in Runs : Live(x) <=> Live(x)'
      BY <2>2, <2>3, <2>4 DEF Live
    <2> QED
      BY <2>2, <2>5 DEF SnapshotsHang
  <1> QED
    BY <1>1, <1>2, <1>3, <1>4, <1>5, <1>6, <1>7, <1>k, StepKinds DEF ControlInv

\* A claim counts the attempt, and only Build writes a table, with that attempt.
LEMMA AttemptsStep ==
  ASSUME Typed, AttemptsCount, [Next]_vars
  PROVE  /\ AttemptsCount'
         /\ \A r \in Runs : table[r] # 0 => table'[r] # 0
         /\ \A r \in Runs : table'[r] # table[r] => Droppable(r)
  <1>1. ASSUME NEW v \in Workers, Claim(v) \/ Work(v) \/ TornActivation(v) \/ Crash(v)
        PROVE  AttemptsCount'
    <2>1. ASSUME NEW r \in Runs, ClaimRun(v, r)
          PROVE  AttemptsCount'
      <3>1. run[r].attempt + 1 # 0
        BY BuildAssumption DEF Typed, TypeOK, RunRecord, Attempts
      <3> QED
        BY <2>1, <3>1 DEF ClaimRun, AttemptsCount, Typed, TypeOK
    <2>2. ASSUME worker[v].pc # "idle",
                 worker' = Release(v) \/ \E step : worker' = Goto(v, step)
          PROVE  AttemptsCount'
      <3>1. CASE worker' = Release(v)
        BY <3>1 DEF Release, Idle, AttemptsCount, Typed, TypeOK
      <3>2. ASSUME NEW step, worker' = Goto(v, step)
            PROVE  AttemptsCount'
        <4>1. worker'[v].attempt = worker[v].attempt /\ \A w \in Workers \ {v} : worker'[w] = worker[w]
          BY <3>2 DEF Goto, Typed, TypeOK, WorkerRecord
        <4> QED
          BY <2>2, <4>1 DEF AttemptsCount
      <3> QED
        BY <2>2, <3>1, <3>2
    <2>3. CASE ClaimNothing(v)
      BY <2>3 DEF ClaimNothing, AttemptsCount
    <2>4. CASE QuietWork(v)
      <3>1. CASE SeeLease(v)
        <4>1. \A w \in Workers : worker'[w].attempt = worker[w].attempt
          BY <3>1 DEF SeeLease, Typed, TypeOK, WorkerRecord
        <4>2. \A w \in Workers : worker'[w].pc = worker[w].pc
          BY <3>1 DEF SeeLease, Typed, TypeOK, WorkerRecord
        <4> QED
          BY <4>1, <4>2 DEF AttemptsCount
      <3> QED
        BY <2>2, <2>4, <3>1 DEF QuietWork, LoseLease, Crash, Resolve, ResolveFails, ResumeSnapshot,
           BeginConflicts, BuildFails, ActivationRejected, RenameCollides, StartTransform,
           FinishTransform, StartMaterialize, FinishMaterialize, CommitNode, NodeReady, NodeSteps,
           NodeRefused
    <2>5. CASE \/ BeginRefresh(v) \/ BeginBuild(v) \/ Build(v) \/ Activate(v)
               \/ TornActivation(v) \/ Fail(v)
      BY <2>2, <2>5 DEF BeginRefresh, BeginBuild, Build, Activate, TornActivation, Fail
    <2> QED
      BY <1>1, <2>1, <2>3, <2>4, <2>5 DEF Claim, Work, QuietWork
  <1>2. ASSUME UNCHANGED vars \/ PublishVersion \/ Request \/ \E r \in Runs : LeaseExpires(r)
        PROVE  AttemptsCount'
    <2>1. UNCHANGED worker
      BY <1>2 DEF vars, PublishVersion, Request, Register, CancelActive, LeaseExpires
    <2> QED
      BY <2>1 DEF AttemptsCount
  <1>3. AttemptsCount'
    BY <1>1, <1>2 DEF Next
  <1>4. ASSUME NEW w \in Workers, Build(w)
        PROVE  /\ \A r \in Runs : table[r] # 0 => table'[r] # 0
               /\ \A r \in Runs : table'[r] # table[r] => Droppable(r)
    <2>1. worker[w].attempt # 0 /\ Droppable(worker[w].run)
      BY <1>4 DEF Build, AttemptsCount
    <2> QED
      BY <1>4, <2>1 DEF Build, Typed, TypeOK
  <1>5. ASSUME NEW w \in Workers,
               BeginRefresh(w) \/ BeginBuild(w) \/ Activate(w) \/ TornActivation(w) \/ Fail(w)
        PROVE  UNCHANGED table
    BY <1>5 DEF BeginRefresh, BeginBuild, Activate, TornActivation, Fail, SwitchPublishedView,
       warehouse
  <1> QED
    BY <1>3, <1>4, <1>5, StepKinds

\* The build side keeps its part of the invariant next to a cleanup.
LEMMA BuildKeptStep ==
  ASSUME BuildKept, [Next]_vars
  PROVE  BuildKept'
  <1>1. Typed /\ Typed'
    BY StepTyped DEF BuildKept, ControlInv
  <1> QED
    BY <1>1, ControlStep, LiveStep, VersionsStep, AttemptsStep DEF BuildKept

-----------------------------------------------------------------------------
(* Deletion, regeneration, dropping and retiring keep it as well.          *)

\* What deletion and regeneration leave of the build side: everything but the
\* dataset record.
SameBuild == UNCHANGED <<run, node, snap, mat, table, view, retired, worker>>

\* Deletion and regeneration keep the invariant: they touch the versions only.
LEMMA SameBuildKept ==
  ASSUME BuildKept, SameBuild, dataset' \in DatasetRecord, VersionsKept'
  PROVE  BuildKept' /\ LiveRuns' = LiveRuns
  <1>1. Typed'
    BY DEF BuildKept, ControlInv, SameBuild, Typed, TypeOK, WorkerHasRun
  <1>2. OutcomeMatchesSnapshot' /\ SnapshotNamesItsRow' /\ RowsAreSingle'
    BY DEF BuildKept, ControlInv, SameBuild, OutcomeMatchesSnapshot, SnapshotNamesItsRow,
       RowsAreSingle, Active, Building
  <1>3. SnapshotsHang' /\ AttemptsCount' /\ LiveRuns' = LiveRuns
    BY DEF BuildKept, SameBuild, SnapshotsHang, AttemptsCount, LiveRuns, Live
  <1> QED
    BY <1>1, <1>2, <1>3 DEF BuildKept, ControlInv

\* Deletion finds no unfinished build to cancel and withdraws every version.
LEMMA DeleteKept ==
  ASSUME BuildKept, Delete
  PROVE  /\ BuildKept' /\ SameBuild /\ LiveRuns' = LiveRuns
         /\ dataset.latest > 0
         /\ dataset'.latest = dataset.latest /\ dataset'.deleted /\ dataset'.published = {}
  <1>1. run' = run
    <2>1. \A r \in Runs : RunsCancelled[r] = run[r]
      BY DEF Delete, InUse, RunsCancelled
    <2> QED
      BY <2>1 DEF Delete, RunsCancelled, BuildKept, ControlInv, Typed, TypeOK
  <1>2. SameBuild
    BY <1>1 DEF Delete, SameBuild, warehouse
  <1>3. /\ dataset' \in DatasetRecord /\ dataset'.latest = dataset.latest
        /\ dataset'.deleted = TRUE /\ dataset'.published = {} /\ dataset'.current = 0
    <2>1. dataset \in DatasetRecord /\ 0 \in Versions /\ {} \in SUBSET (1..MaxVersion)
      BY BuildAssumption DEF BuildKept, ControlInv, Typed, TypeOK, Versions
    <2>2. dataset' = [dataset EXCEPT !.deleted = TRUE, !.current = 0, !.published = {}]
      BY DEF Delete
    <2> QED
      BY <2>1, <2>2 DEF DatasetRecord
  <1>4. \A r \in Runs : ~Unfinished(r)'
    BY <1>1 DEF Delete, InUse, Unfinished
  <1>5. VersionsKept'
    BY <1>1, <1>3, <1>4 DEF BuildKept, VersionsKept
  <1>6. dataset.latest \in Nat /\ dataset.latest > 0
    BY BuildAssumption
    DEF Delete, BuildKept, ControlInv, Typed, TypeOK, DatasetRecord, Versions, VersionsKept
  <1> QED
    BY <1>2, <1>3, <1>5, <1>6, SameBuildKept

\* Regeneration publishes the next version and nothing else.
LEMMA RegenerateKept ==
  ASSUME BuildKept, Regenerate
  PROVE  /\ BuildKept' /\ SameBuild /\ LiveRuns' = LiveRuns
         /\ dataset'.latest = dataset.latest + 1 /\ ~dataset'.deleted
         /\ dataset'.published = {dataset.latest + 1}
  <1>1. SameBuild
    BY DEF Regenerate, SameBuild, warehouse
  <1>2. dataset.latest \in Nat /\ dataset.latest + 1 \in 1..MaxVersion /\ dataset.published = {}
        /\ \A r \in Runs : run[r].version \in Nat
    BY BuildAssumption
    DEF Regenerate, BuildKept, ControlInv, Typed, TypeOK, DatasetRecord, RunRecord, Versions, VersionsKept
  <1>3. /\ dataset'.latest = dataset.latest + 1 /\ dataset'.current = dataset.latest + 1
        /\ dataset'.deleted = FALSE /\ dataset'.published = {dataset.latest + 1}
        /\ dataset' \in DatasetRecord
    <2>1. dataset \in DatasetRecord
      BY DEF BuildKept, ControlInv, Typed, TypeOK
    <2>2. dataset.latest + 1 \in Versions /\ {dataset.latest + 1} \in SUBSET (1..MaxVersion)
      BY <1>2, BuildAssumption DEF Versions
    <2>3. dataset' = [dataset EXCEPT !.deleted = FALSE, !.latest = dataset.latest + 1,
                        !.current = dataset.latest + 1, !.published = {dataset.latest + 1}]
      BY <1>2 DEF Regenerate, NextVersionPublished
    <2> QED
      BY <2>1, <2>2, <2>3 DEF DatasetRecord
  <1>4. \A r \in Runs : ~Unfinished(r) /\ UNCHANGED run
    BY <1>1, <1>2 DEF BuildKept, VersionsKept, SameBuild
  <1>5. VersionsKept'
    BY <1>2, <1>3, <1>4 DEF BuildKept, VersionsKept, Unfinished
  <1> QED
    BY <1>1, <1>3, <1>5, SameBuildKept

\* A drop changes the warehouse only.
LEMMA DropKept ==
  ASSUME BuildKept, NEW c \in Cleaners, DropTargets(c)
  PROVE  BuildKept' /\ LiveRuns' = LiveRuns /\ UNCHANGED <<dataset, run, snap, mat>>
  <1>1. UNCHANGED <<dataset, run, node, snap, mat, worker>>
    BY DEF DropTargets, control
  <1>2. table' \in [Runs -> Attempts] /\ view' \in RunRef /\ retired' \subseteq Runs \X Runs
    BY BuildAssumption
    DEF DropTargets, BuildKept, ControlInv, Typed, TypeOK, Attempts, RunRef
  <1>3. Typed'
    BY <1>1, <1>2 DEF BuildKept, ControlInv, Typed, TypeOK, WorkerHasRun
  <1>4. OutcomeMatchesSnapshot' /\ SnapshotNamesItsRow' /\ RowsAreSingle'
    BY <1>1 DEF BuildKept, ControlInv, OutcomeMatchesSnapshot, SnapshotNamesItsRow,
       RowsAreSingle, Active, Building
  <1>5. SnapshotsHang' /\ VersionsKept' /\ AttemptsCount' /\ LiveRuns' = LiveRuns
    BY <1>1 DEF BuildKept, SnapshotsHang, VersionsKept, Unfinished, AttemptsCount, LiveRuns, Live
  <1> QED
    BY <1>1, <1>3, <1>4, <1>5 DEF BuildKept, ControlInv

\* Completion retires ACTIVE rows: what is live stays live.
LEMMA CompleteKept ==
  ASSUME BuildKept, NEW c \in Cleaners, CompleteCleanup(c)
  PROVE  BuildKept' /\ LiveRuns' = LiveRuns /\ Active' = {} /\ UNCHANGED <<dataset, run, snap>>
  <1>1. UNCHANGED <<dataset, run, node, snap, table, view, retired, worker>>
    BY DEF CompleteCleanup, warehouse
  <1>2. \A m \in Runs : mat'[m] = IF mat[m].status = "ACTIVE"
                                  THEN [mat[m] EXCEPT !.status = "RETIRED"] ELSE mat[m]
    BY DEF CompleteCleanup, AllRetired
  <1>3. \A m \in Runs : /\ mat'[m] \in MatRecord
                        /\ mat'[m].version = mat[m].version
                        /\ mat'[m].status = IF mat[m].status = "ACTIVE" THEN "RETIRED" ELSE mat[m].status
    BY <1>2 DEF BuildKept, ControlInv, Typed, TypeOK, MatRecord
  <1>4. Typed'
    BY <1>1, <1>3 DEF CompleteCleanup, AllRetired, BuildKept, ControlInv, Typed, TypeOK, WorkerHasRun
  <1>5. Active' = {} /\ Building' = Building
    BY <1>3 DEF Active, Building
  <1>6. OutcomeMatchesSnapshot' /\ SnapshotNamesItsRow' /\ RowsAreSingle'
    BY <1>1, <1>3, <1>5 DEF BuildKept, ControlInv, OutcomeMatchesSnapshot, SnapshotNamesItsRow,
       RowsAreSingle
  <1>7. \A r \in Runs : Live(r) <=> Live(r)'
    <2>1. \A r \in Runs : snap[r].mat \in Runs \/ snap[r].mat = NoRun
      BY DEF BuildKept, ControlInv, Typed, TypeOK, SnapRecord, RunRef
    <2> QED
      BY <1>1, <1>3, <2>1 DEF Live
  <1>8. SnapshotsHang' /\ VersionsKept' /\ AttemptsCount' /\ LiveRuns' = LiveRuns
    BY <1>1, <1>7 DEF BuildKept, SnapshotsHang, VersionsKept, Unfinished, AttemptsCount, LiveRuns
  <1> QED
    BY <1>1, <1>4, <1>5, <1>6, <1>8 DEF BuildKept, ControlInv

-----------------------------------------------------------------------------
(* Counting the targets.                                                   *)

\* Each live run is one target, under the status of its row.
LEMMA TargetsLive ==
  ASSUME BuildKept
  PROVE  /\ CleanupTargets \subseteq Targets
         /\ {t.run : t \in CleanupTargets} = LiveRuns
         /\ IsFiniteSet(LiveRuns)
         /\ Cardinality(CleanupTargets) = Cardinality(LiveRuns)
         /\ Cardinality(LiveRuns) \in 0..Cardinality(Runs)
         /\ CleanupTargets = {} <=> LiveRuns = {}
  <1> DEFINE current(r) == mat[snap[r].mat].status = "ACTIVE" /\ mat[snap[r].mat].run = r
             target(r) == [run |-> r, status |-> IF current(r) THEN "ACTIVE" ELSE "RETIRED"]
             f == [r \in LiveRuns |-> target(r)]
  <1>1. CleanupTargets = {target(r) : r \in LiveRuns}
    BY DEF CleanupTargets, LiveRuns, Live
  <1>2. \A r \in LiveRuns : r \in Runs /\ target(r) \in Targets /\ target(r).run = r
    BY DEF Targets, LiveRuns
  <1> HIDE DEF target
  <1>3. CleanupTargets \subseteq Targets /\ {t.run : t \in CleanupTargets} = LiveRuns
    BY <1>1, <1>2
  <1>4. CleanupTargets = {} <=> LiveRuns = {}
    BY <1>1
  <1>5. IsFiniteSet(Runs) /\ LiveRuns \in SUBSET Runs
    BY CleanupAssumption DEF LiveRuns
  <1>6. IsFiniteSet(LiveRuns) /\ Cardinality(LiveRuns) <= Cardinality(Runs)
    BY <1>5, FS_Subset
  <1>7. Cardinality(LiveRuns) \in Nat /\ Cardinality(Runs) \in Nat
    BY <1>5, <1>6, FS_CardinalityType
  <1>8. f \in Bijection(LiveRuns, CleanupTargets)
    <2>1. f \in [LiveRuns -> CleanupTargets] /\ \A t \in CleanupTargets : \E r \in LiveRuns : f[r] = t
      BY <1>1
    <2>2. \A r, q \in LiveRuns : f[r] = f[q] => r = q
      BY <1>2
    <2> QED
      BY <2>1, <2>2 DEF Bijection, Injection, Surjection, IsInjective
  <1>9. Cardinality(CleanupTargets) = Cardinality(LiveRuns)
    BY <1>6, <1>8, FS_Bijection DEF ExistsBijection
  <1> QED
    BY <1>3, <1>4, <1>6, <1>7, <1>9

-----------------------------------------------------------------------------
(* The invariant of the composition.                                       *)

JobTyped ==
  job \in [status: JobStatuses, expected: 0..Cardinality(Runs),
           attempt: 0..MaxCleanupAttempts, token: Nat, expired: BOOLEAN, armedAt: Versions]
CleanersTyped ==
  cleaner \in [Cleaners ->
    [pc: {"idle", "load", "drop", "complete", "fail"}, token: Nat, targets: SUBSET Targets]]

\* Each arming belongs to a deletion of a newer version (Enqueue), and gives the
\* job a new attempt budget, so the claims so far are bounded by the versions.
JobCounted ==
  IF job.status = "NONE" THEN job.token = 0
  ELSE /\ job.armedAt >= 1 /\ job.armedAt <= dataset.latest
       /\ ~dataset.deleted => job.armedAt < dataset.latest
       /\ job.token <= (job.armedAt - 1) * MaxCleanupAttempts + job.attempt
TokensBehind == \A c \in Cleaners : cleaner[c].token <= job.token

\* What was live when the job was armed, which is what the job expects to find:
\* whatever becomes live later belongs to a version published later.
LiveWhenArmed == {r \in LiveRuns : run[r].version <= job.armedAt}
ExpectedCounted ==
  job.status # "NONE" =>
    /\ job.expected = Cardinality(LiveWhenArmed)
    /\ \A v \in dataset.published : v > job.armedAt

\* Loaded targets belong to versions that are withdrawn and never come back.
TargetsWithdrawn ==
  \A c \in Cleaners : \A t \in cleaner[c].targets :
    /\ run[t.run].status # "NONE"
    /\ run[t.run].version <= dataset.latest
    /\ run[t.run].version \notin dataset.published

CleanupInv ==
  /\ BuildKept
  /\ JobTyped /\ CleanersTyped
  /\ JobCounted /\ TokensBehind
  /\ ExpectedCounted /\ TargetsWithdrawn

\* Nothing is armed, and no cleaner works, at the start.
LEMMA CleanupInitInv == CleanupInit => CleanupInv
  <1> SUFFICES ASSUME CleanupInit PROVE CleanupInv
    OBVIOUS
  <1>1. ControlInv
    BY InitInv DEF CleanupInit, IInv
  <1>2. SnapshotsHang /\ VersionsKept /\ AttemptsCount
    BY BuildAssumption
    DEF CleanupInit, Init, Idle, SnapshotsHang, VersionsKept, AttemptsCount, Unfinished
  <1>3. Cardinality(Runs) \in Nat
    BY CleanupAssumption, FS_CardinalityType
  <1>4. JobTyped
    <2>1. 0 \in 0..Cardinality(Runs) /\ 0 \in 0..MaxCleanupAttempts /\ 0 \in Versions
      BY <1>3, CleanupAssumption, BuildAssumption DEF Versions
    <2> QED
      BY <2>1 DEF CleanupInit, JobTyped, JobStatuses
  <1>5. CleanersTyped /\ TokensBehind /\ TargetsWithdrawn
    BY DEF CleanupInit, CleanerIdle, CleanersTyped, TokensBehind, TargetsWithdrawn
  <1>6. JobCounted /\ ExpectedCounted
    BY DEF CleanupInit, JobCounted, ExpectedCounted
  <1> QED
    BY <1>1, <1>2, <1>4, <1>5, <1>6 DEF CleanupInv, BuildKept

\* One arming's worth of attempts more.
LEMMA Product ==
  ASSUME NEW a \in Nat, NEW b \in Nat, NEW n \in Nat, a < b
  PROVE  /\ a * n + n <= b * n
         /\ a * n \in Nat /\ b * n \in Nat
  <1>1. PICK k \in Nat : b = a + 1 + k
    <2>1. b - a - 1 \in Nat /\ b = a + 1 + (b - a - 1)
      OBVIOUS
    <2> QED
      BY <2>1
  <1>2. b * n = a * n + n + k * n
    BY <1>1
  <1>3. k * n \in Nat /\ a * n \in Nat
    OBVIOUS
  <1> QED
    BY <1>2, <1>3

\* What happens besides to the build side, as far as the counts see it: live
\* runs stay live at their version, published versions are new ones.
LEMMA CountsKept ==
  ASSUME BuildKept, BuildKept', JobTyped, ExpectedCounted, UNCHANGED <<job, cleaner>>, JobCounted,
         TargetsWithdrawn, CleanersTyped,
         dataset.latest <= dataset'.latest,
         \A v \in dataset'.published : v \in dataset.published \/ v > dataset.latest,
         dataset'.deleted \/ ~dataset.deleted \/ dataset'.latest > dataset.latest,
         \A r \in Runs : Live(r) => Live(r)',
         \A r \in Runs : ~Live(r) /\ Live(r)' =>
            run'[r].version \in dataset.published,
         \A r \in Runs : run[r].status # "NONE" =>
            run'[r].version = run[r].version /\ run'[r].status # "NONE"
  PROVE  ExpectedCounted' /\ TargetsWithdrawn' /\ JobCounted'
  <1>1. /\ dataset.latest \in Nat /\ dataset'.latest \in Nat /\ job.armedAt \in Nat
        /\ dataset.published \subseteq Nat /\ dataset'.published \subseteq Nat
        /\ \A r \in Runs : run[r].version \in Nat /\ run'[r].version \in Nat
    BY BuildAssumption
    DEF BuildKept, ControlInv, Typed, TypeOK, DatasetRecord, RunRecord, Versions, JobTyped
  <1>2. \A r \in Runs : Live(r) => run[r].status # "NONE"
    BY DEF BuildKept, ControlInv, SnapshotNamesItsRow, SnapshotsHang, Live
  <1>3. ASSUME job.status # "NONE"
        PROVE  LiveWhenArmed' = LiveWhenArmed
    <2>1. job.armedAt <= dataset.latest /\ \A v \in dataset.published : v > job.armedAt
      BY <1>3 DEF JobCounted, ExpectedCounted
    <2>2. \A r \in Runs : Live(r) => (Live(r)' /\ run'[r].version = run[r].version)
      BY <1>2
    <2>3. \A r \in Runs : ~Live(r) /\ Live(r)' => ~(run'[r].version <= job.armedAt)
      BY <1>1, <2>1
    <2> QED
      BY <2>2, <2>3 DEF LiveWhenArmed, LiveRuns
  <1>4. ExpectedCounted'
    BY <1>1, <1>3 DEF ExpectedCounted, JobCounted
  <1>5. TargetsWithdrawn'
    <2>1. \A c \in Cleaners : \A t \in cleaner[c].targets : t.run \in Runs
      BY DEF CleanersTyped, Targets
    <2> QED
      BY <1>1, <2>1 DEF TargetsWithdrawn
  <1>6. JobCounted'
    BY <1>1 DEF JobCounted
  <1> QED
    BY <1>4, <1>5, <1>6

\* A step of the build side.
LEMMA BuildStepCounts ==
  ASSUME CleanupInv, [Next]_vars, UNCHANGED <<job, cleaner>>
  PROVE  CleanupInv'
  <1>1. BuildKept'
    BY BuildKeptStep DEF CleanupInv
  <1>2. dataset.latest \in Nat
    BY BuildAssumption DEF CleanupInv, BuildKept, ControlInv, Typed, TypeOK, DatasetRecord, Versions
  <1>3. /\ dataset.latest <= dataset'.latest
        /\ \A v \in dataset'.published : v \in dataset.published \/ v > dataset.latest
        /\ dataset'.deleted \/ ~dataset.deleted
    <2>1. CASE UNCHANGED dataset
      BY <1>2, <2>1
    <2>2. CASE PublishVersion
      <3>1. /\ ~dataset.deleted /\ dataset'.latest = dataset.latest + 1
            /\ dataset'.published = dataset.published \union {dataset.latest + 1}
        BY <2>2 DEF PublishVersion, NextVersionPublished, CleanupInv, BuildKept, ControlInv, Typed,
           TypeOK, DatasetRecord
      <3> QED
        BY <1>2, <3>1
    <2> QED
      BY <2>1, <2>2, DatasetStep
  <1>4. ASSUME NEW r \in Runs
        PROVE  /\ Live(r) => Live(r)'
               /\ ~Live(r) /\ Live(r)' => run'[r].version \in dataset.published
               /\ run[r].status # "NONE" => run'[r].version = run[r].version /\ run'[r].status # "NONE"
    <2>1. Live(r) => Live(r)'
      BY LiveStep DEF CleanupInv, BuildKept
    <2>2. ASSUME ~Live(r), Live(r)'
          PROVE  run'[r].version \in dataset.published
      <3>1. run[r].status = "RUNNING" /\ run'[r].version = run[r].version
        BY <2>2, LiveStep DEF CleanupInv, BuildKept
      <3> QED
        BY <3>1 DEF CleanupInv, BuildKept, VersionsKept, Unfinished
    <2>3. RunMoves(r)
      BY RunsMove DEF CleanupInv, BuildKept, ControlInv
    <2> QED
      BY <2>1, <2>2, <2>3 DEF RunMoves
  <1>5. ExpectedCounted' /\ TargetsWithdrawn' /\ JobCounted'
    BY <1>1, <1>3, <1>4, CountsKept DEF CleanupInv
  <1>6. JobTyped' /\ CleanersTyped' /\ TokensBehind'
    BY DEF CleanupInv, JobTyped, CleanersTyped, TokensBehind
  <1> QED
    BY <1>1, <1>5, <1>6 DEF CleanupInv

\* Deletion arms the job for its own version and counts what is live, or finds
\* it RUNNING, or nothing to drop, and leaves it alone (Enqueue).
LEMMA DeleteCounts ==
  ASSUME CleanupInv, Delete
  PROVE  CleanupInv'
  <1>1. /\ BuildKept /\ BuildKept' /\ LiveRuns' = LiveRuns /\ UNCHANGED <<run, cleaner>>
        /\ dataset.latest > 0 /\ dataset'.latest = dataset.latest
        /\ dataset'.deleted /\ dataset'.published = {}
    BY DeleteKept DEF CleanupInv, SameBuild, Delete
  <1>2. dataset.latest \in Nat /\ dataset.latest \in Versions
    BY BuildAssumption DEF CleanupInv, BuildKept, ControlInv, Typed, TypeOK, DatasetRecord, Versions
  <1>3. CASE UNCHANGED job
    <2>1. \A r \in Runs : Live(r) <=> Live(r)'
      BY <1>1 DEF LiveRuns
    <2>2. ExpectedCounted' /\ TargetsWithdrawn' /\ JobCounted'
      BY <1>1, <1>2, <1>3, <2>1, CountsKept DEF CleanupInv
    <2>3. JobTyped' /\ CleanersTyped' /\ TokensBehind'
      BY <1>1, <1>3 DEF CleanupInv, JobTyped, CleanersTyped, TokensBehind
    <2> QED
      BY <1>1, <2>2, <2>3 DEF CleanupInv
  <1>4. CASE job' = [job EXCEPT !.status = "QUEUED", !.expected = Cardinality(CleanupTargets),
                                !.attempt = 0, !.expired = FALSE, !.armedAt = dataset.latest]
    <2>1. Cardinality(CleanupTargets) = Cardinality(LiveRuns)
          /\ Cardinality(LiveRuns) \in 0..Cardinality(Runs)
      BY <1>1, TargetsLive
    <2>2. /\ job'.status = "QUEUED" /\ job'.expected = Cardinality(LiveRuns)
          /\ job'.attempt = 0 /\ job'.armedAt = dataset.latest /\ job'.token = job.token
      BY <1>4, <2>1 DEF CleanupInv, JobTyped
    <2>3. JobTyped'
      <3>1. "QUEUED" \in JobStatuses /\ 0 \in 0..MaxCleanupAttempts
        BY CleanupAssumption DEF JobStatuses
      <3> QED
        BY <1>2, <1>4, <2>1, <3>1 DEF CleanupInv, JobTyped
    <2>4. LiveWhenArmed' = LiveRuns
      <3>1. \A r \in Runs : run'[r].version <= dataset.latest
        BY <1>1 DEF BuildKept, VersionsKept
      <3> QED
        BY <1>1, <2>2, <3>1 DEF LiveWhenArmed, LiveRuns
    <2>5. ExpectedCounted'
      BY <1>1, <2>2, <2>4 DEF ExpectedCounted
    <2>6. job.token <= (dataset.latest - 1) * MaxCleanupAttempts
      <3>1. PICK b \in Nat : b = dataset.latest - 1
        BY <1>1, <1>2
      <3>2. MaxCleanupAttempts \in Nat /\ job.token \in Nat /\ job.attempt \in Nat
            /\ job.attempt <= MaxCleanupAttempts /\ job.armedAt \in Nat
        BY CleanupAssumption, BuildAssumption DEF CleanupInv, JobTyped, Versions
      <3>3. CASE job.status = "NONE"
        <4>1. b * MaxCleanupAttempts >= 0
          BY <3>2
        <4> QED
          BY <3>1, <3>3, <4>1 DEF CleanupInv, JobCounted
      <3>4. CASE job.status # "NONE"
        <4>1. /\ job.armedAt >= 1 /\ job.armedAt < dataset.latest
              /\ job.token <= (job.armedAt - 1) * MaxCleanupAttempts + job.attempt
          BY <3>4 DEF CleanupInv, JobCounted, Delete
        <4>2. PICK a \in Nat : a = job.armedAt - 1
          BY <3>2, <4>1
        <4>3. a < b
          BY <1>2, <3>1, <3>2, <4>1, <4>2
        <4>4. a * MaxCleanupAttempts + MaxCleanupAttempts <= b * MaxCleanupAttempts
              /\ a * MaxCleanupAttempts \in Nat /\ b * MaxCleanupAttempts \in Nat
          BY <3>2, <4>3, Product
        <4>5. job.token <= a * MaxCleanupAttempts + job.attempt
          BY <4>1, <4>2
        <4>6. job.token <= b * MaxCleanupAttempts
          BY <3>2, <4>4, <4>5
        <4> QED
          BY <3>1, <4>6
      <3> QED
        BY <3>3, <3>4
    <2>7. JobCounted'
      <3>1. (dataset.latest - 1) * MaxCleanupAttempts + 0 = (dataset.latest - 1) * MaxCleanupAttempts
        BY <1>2, CleanupAssumption
      <3> QED
        BY <1>1, <1>2, <2>2, <2>6, <3>1 DEF JobCounted
    <2>8. TargetsWithdrawn'
      BY <1>1 DEF CleanupInv, TargetsWithdrawn
    <2>9. CleanersTyped' /\ TokensBehind'
      BY <1>1, <2>2 DEF CleanupInv, CleanersTyped, TokensBehind
    <2> QED
      BY <1>1, <2>3, <2>5, <2>7, <2>8, <2>9 DEF CleanupInv
  <1> QED
    BY <1>3, <1>4 DEF Delete, ArmCleanup

\* Regeneration publishes a version newer than the one the job was armed for.
LEMMA RegenerateCounts ==
  ASSUME CleanupInv, Regenerate
  PROVE  CleanupInv'
  <1>1. /\ BuildKept /\ BuildKept' /\ LiveRuns' = LiveRuns /\ UNCHANGED <<run, job, cleaner>>
        /\ dataset'.latest = dataset.latest + 1 /\ dataset'.published = {dataset.latest + 1}
    BY RegenerateKept DEF CleanupInv, SameBuild, Regenerate
  <1>2. dataset.latest \in Nat
    BY BuildAssumption DEF CleanupInv, BuildKept, ControlInv, Typed, TypeOK, DatasetRecord, Versions
  <1>3. \A r \in Runs : Live(r) <=> Live(r)'
    BY <1>1 DEF LiveRuns
  <1>4. /\ dataset.latest <= dataset'.latest /\ dataset'.latest > dataset.latest
        /\ \A v \in dataset'.published : v \in dataset.published \/ v > dataset.latest
    BY <1>1, <1>2
  <1>5. ExpectedCounted' /\ TargetsWithdrawn' /\ JobCounted'
    BY <1>1, <1>3, <1>4, CountsKept DEF CleanupInv
  <1>6. JobTyped' /\ CleanersTyped' /\ TokensBehind'
    BY <1>1 DEF CleanupInv, JobTyped, CleanersTyped, TokensBehind
  <1> QED
    BY <1>1, <1>5, <1>6 DEF CleanupInv

\* A cleaner that moves on, or gives up, keeps its token and its targets or
\* forgets both.
LEMMA CleanerMoves ==
  ASSUME CleanersTyped, TokensBehind, TargetsWithdrawn, BuildKept, NEW c \in Cleaners,
         \/ cleaner' = CleanerStops(c)
         \/ \E step \in {"load", "drop", "complete", "fail"} : cleaner' = CleanerGoes(c, step),
         job'.token = job.token, UNCHANGED <<run, dataset>>, job.token \in Nat
  PROVE  CleanersTyped' /\ TokensBehind' /\ TargetsWithdrawn'
  <1>1. CASE cleaner' = CleanerStops(c)
    <2>1. cleaner'[c] = [pc |-> "idle", token |-> 0, targets |-> {}]
          /\ \A x \in Cleaners \ {c} : cleaner'[x] = cleaner[x]
      BY <1>1 DEF CleanerStops, CleanerIdle, CleanersTyped
    <2>2. CleanersTyped'
      BY <1>1 DEF CleanerStops, CleanerIdle, CleanersTyped
    <2> QED
      BY <2>1, <2>2 DEF TokensBehind, TargetsWithdrawn
  <1>2. ASSUME NEW step \in {"load", "drop", "complete", "fail"}, cleaner' = CleanerGoes(c, step)
        PROVE  CleanersTyped' /\ TokensBehind' /\ TargetsWithdrawn'
    <2>1. \A x \in Cleaners : /\ cleaner'[x].token = cleaner[x].token
                              /\ cleaner'[x].targets = cleaner[x].targets
      BY <1>2 DEF CleanerGoes, CleanersTyped
    <2>2. CleanersTyped'
      BY <1>2 DEF CleanerGoes, CleanersTyped
    <2> QED
      BY <2>1, <2>2 DEF TokensBehind, TargetsWithdrawn
  <1> QED
    BY <1>1, <1>2

\* Where the build side, the version and the counters of the job do not change,
\* what was counted stays as it was.
LEMMA SameCounts ==
  ASSUME CleanupInv, BuildKept', LiveRuns' = LiveRuns, UNCHANGED <<run, dataset>>,
         job' = job \/ (job.status = "RUNNING" /\ job'.status # "NONE"),
         job'.token = job.token, job'.attempt = job.attempt,
         job'.armedAt = job.armedAt, job'.expected = job.expected
  PROVE  JobCounted' /\ ExpectedCounted'
  <1>1. LiveWhenArmed' = LiveWhenArmed
    BY DEF LiveWhenArmed
  <1> QED
    BY <1>1 DEF CleanupInv, JobCounted, ExpectedCounted

\* The build side as a step of the job or of a cleaner leaves it.
LEMMA SameVars ==
  ASSUME BuildKept, UNCHANGED vars
  PROVE  BuildKept' /\ LiveRuns' = LiveRuns /\ UNCHANGED <<run, dataset>>
  <1>1. SameBuild /\ UNCHANGED <<run, dataset>>
    BY DEF vars, SameBuild
  <1>2. dataset' \in DatasetRecord /\ VersionsKept'
    BY <1>1 DEF BuildKept, ControlInv, Typed, TypeOK, VersionsKept, Unfinished
  <1> QED
    BY <1>1, <1>2, SameBuildKept

\* A claim draws the next token and counts the attempt; the cleaner starts
\* without targets.
LEMMA ClaimCounts ==
  ASSUME CleanupInv, NEW c \in Cleaners, ClaimCleanup(c)
  PROVE  CleanupInv'
  <1>1. BuildKept' /\ LiveRuns' = LiveRuns /\ UNCHANGED <<run, dataset>>
    BY SameVars DEF CleanupInv, ClaimCleanup
  <1>2. job.token \in Nat /\ job.attempt \in Nat /\ job.attempt < MaxCleanupAttempts
        /\ MaxCleanupAttempts \in Nat /\ job.armedAt \in Nat
    BY CleanupAssumption, BuildAssumption
    DEF ClaimCleanup, CleanupAttemptLeft, CleanupInv, JobTyped, Versions
  <1>3. /\ job.status # "NONE" /\ job'.status = "RUNNING"
        /\ job'.attempt = job.attempt + 1 /\ job'.token = job.token + 1
        /\ job'.armedAt = job.armedAt /\ job'.expected = job.expected
    BY DEF ClaimCleanup, CleanupInv, JobTyped
  <1>4. JobTyped'
    <2>1. job.attempt + 1 \in 0..MaxCleanupAttempts /\ job.token + 1 \in Nat /\ "RUNNING" \in JobStatuses
      BY <1>2 DEF JobStatuses
    <2> QED
      BY <2>1 DEF ClaimCleanup, CleanupInv, JobTyped
  <1>5. JobCounted'
    <2>1. /\ job.armedAt >= 1 /\ job.armedAt <= dataset.latest
          /\ ~dataset.deleted => job.armedAt < dataset.latest
          /\ job.token <= (job.armedAt - 1) * MaxCleanupAttempts + job.attempt
      BY <1>3 DEF CleanupInv, JobCounted
    <2>2. PICK p \in Int : p = (job.armedAt - 1) * MaxCleanupAttempts
      BY <1>2
    <2>3. job'.token <= p + job'.attempt
      BY <1>2, <1>3, <2>1, <2>2
    <2> QED
      BY <1>1, <1>3, <2>1, <2>2, <2>3 DEF JobCounted
  <1>6. ExpectedCounted'
    <2>1. LiveWhenArmed' = LiveWhenArmed
      BY <1>1, <1>3 DEF LiveWhenArmed
    <2> QED
      BY <1>1, <1>3, <2>1 DEF CleanupInv, ExpectedCounted
  <1>7. CleanersTyped' /\ TokensBehind' /\ TargetsWithdrawn'
    <2>1. /\ cleaner'[c] = [pc |-> "load", token |-> job.token + 1, targets |-> {}]
          /\ \A x \in Cleaners \ {c} : cleaner'[x] = cleaner[x]
      BY DEF ClaimCleanup, CleanupInv, CleanersTyped
    <2>2. CleanersTyped'
      BY <1>2 DEF ClaimCleanup, CleanupInv, CleanersTyped
    <2>3. \A x \in Cleaners : cleaner[x].token \in Nat
      BY DEF CleanupInv, CleanersTyped
    <2> QED
      BY <1>1, <1>2, <1>3, <2>1, <2>2, <2>3 DEF CleanupInv, TokensBehind, TargetsWithdrawn
  <1> QED
    BY <1>1, <1>4, <1>5, <1>6, <1>7 DEF CleanupInv

\* When as many are found as the deletion counted, they are the ones it counted:
\* all of them belong to versions withdrawn by then (LoadTargets).
LEMMA FoundAreWithdrawn ==
  ASSUME CleanupInv, job.status # "NONE", CountMatches(CleanupTargets)
  PROVE  \A r \in LiveRuns : /\ run[r].status # "NONE"
                             /\ run[r].version <= dataset.latest
                             /\ run[r].version \notin dataset.published
  <1>1. BuildKept /\ LiveWhenArmed \in SUBSET LiveRuns
    BY DEF CleanupInv, LiveWhenArmed
  <1>2. IsFiniteSet(LiveRuns) /\ Cardinality(CleanupTargets) = Cardinality(LiveRuns)
    BY <1>1, TargetsLive
  <1>3. Cardinality(LiveRuns) = Cardinality(LiveWhenArmed)
    BY <1>2 DEF CountMatches, CleanupInv, ExpectedCounted
  <1>4. LiveRuns = LiveWhenArmed
    BY <1>1, <1>2, <1>3, FS_Subset
  <1>5. job.armedAt <= dataset.latest /\ \A v \in dataset.published : v > job.armedAt
    BY DEF CleanupInv, JobCounted, ExpectedCounted
  <1>6. job.armedAt \in Nat /\ dataset.latest \in Nat /\ \A r \in Runs : run[r].version \in Nat
    BY BuildAssumption DEF CleanupInv, BuildKept, ControlInv, Typed, TypeOK, DatasetRecord, RunRecord,
       Versions, JobTyped
  <1>7. \A r \in LiveRuns : r \in Runs /\ run[r].version <= job.armedAt
    BY <1>4 DEF LiveWhenArmed, LiveRuns
  <1>8. \A r \in LiveRuns : run[r].status # "NONE"
    BY <1>1 DEF BuildKept, ControlInv, SnapshotNamesItsRow, SnapshotsHang, LiveRuns, Live
  <1> QED
    BY <1>5, <1>6, <1>7, <1>8

\* Loading, with the lease and the count as they must be, or not.
LEMMA LoadCounts ==
  ASSUME CleanupInv, NEW c \in Cleaners, LoadTargets(c)
  PROVE  CleanupInv'
  <1>1. BuildKept /\ BuildKept' /\ LiveRuns' = LiveRuns /\ UNCHANGED <<run, dataset, job>>
    BY SameVars DEF CleanupInv, LoadTargets
  <1>2. JobCounted' /\ ExpectedCounted' /\ JobTyped'
    BY <1>1, SameCounts DEF CleanupInv, JobTyped
  <1>3. CASE HoldsLease(c) /\ CountMatches(CleanupTargets)
    <2>1. /\ cleaner' = [cleaner EXCEPT ![c].pc = "drop", ![c].targets = CleanupTargets]
          /\ CleanupTargets \subseteq Targets /\ {t.run : t \in CleanupTargets} = LiveRuns
      BY <1>1, <1>3, TargetsLive DEF LoadTargets
    <2>2. CleanersTyped'
      BY <2>1 DEF CleanupInv, CleanersTyped
    <2>3. /\ cleaner'[c].targets = CleanupTargets /\ cleaner'[c].token = cleaner[c].token
          /\ \A x \in Cleaners \ {c} : cleaner'[x] = cleaner[x]
      BY <2>1 DEF CleanupInv, CleanersTyped
    <2>4. job.status # "NONE"
      BY <1>3 DEF HoldsLease, HoldsToken
    <2>5. \A t \in CleanupTargets : /\ run[t.run].status # "NONE"
                                    /\ run[t.run].version <= dataset.latest
                                    /\ run[t.run].version \notin dataset.published
      BY <1>3, <2>1, <2>4, FoundAreWithdrawn
    <2>6. TokensBehind' /\ TargetsWithdrawn'
      BY <1>1, <2>3, <2>5 DEF CleanupInv, TokensBehind, TargetsWithdrawn
    <2> QED
      BY <1>1, <1>2, <2>2, <2>6 DEF CleanupInv
  <1>4. CASE cleaner' = CleanerGoes(c, "fail")
    <2>1. CleanersTyped' /\ TokensBehind' /\ TargetsWithdrawn'
      BY <1>1, <1>4, CleanerMoves DEF CleanupInv, JobTyped
    <2> QED
      BY <1>1, <1>2, <2>1 DEF CleanupInv
  <1> QED
    BY <1>3, <1>4 DEF LoadTargets

\* Completing, failing, losing the lease or dying: the job keeps its counters
\* and the cleaner moves on.
LEMMA CleanerSteps ==
  ASSUME CleanupInv, NEW c \in Cleaners,
         DropTargets(c) \/ DropFails(c) \/ CompleteCleanup(c) \/ FailCleanup(c)
           \/ CleanupLost(c) \/ CleanerCrash(c)
  PROVE  CleanupInv'
  <1>1. BuildKept' /\ LiveRuns' = LiveRuns /\ UNCHANGED <<run, dataset>>
    <2>1. CASE DropTargets(c)
      BY <2>1, DropKept DEF CleanupInv
    <2>2. CASE CompleteCleanup(c)
      BY <2>2, CompleteKept DEF CleanupInv
    <2>3. CASE DropFails(c) \/ FailCleanup(c) \/ CleanupLost(c) \/ CleanerCrash(c)
      <3>1. UNCHANGED vars
        BY <2>3 DEF DropFails, FailCleanup, CleanupLost, CleanerCrash
      <3> QED
        BY <3>1, SameVars DEF CleanupInv
    <2> QED
      BY <2>1, <2>2, <2>3
  <1>2. /\ JobTyped'
        /\ job' = job \/ (job.status = "RUNNING" /\ job'.status # "NONE")
        /\ job'.token = job.token /\ job'.attempt = job.attempt
        /\ job'.armedAt = job.armedAt /\ job'.expected = job.expected
    <2>1. CASE job' = job
      BY <2>1 DEF CleanupInv, JobTyped
    <2>2. CASE CompleteCleanup(c)
      BY <2>2 DEF CompleteCleanup, HoldsLease, HoldsToken, CleanupInv, JobTyped, JobStatuses
    <2>3. CASE FailCleanup(c)
      <3>1. PICK s \in {"FAILED", "QUEUED"} : job' = [job EXCEPT !.status = s, !.expired = FALSE]
        BY <2>3 DEF FailCleanup
      <3>2. job.status = "RUNNING"
        BY <2>3 DEF FailCleanup, HoldsToken
      <3> QED
        BY <3>1, <3>2 DEF CleanupInv, JobTyped, JobStatuses
    <2> QED
      BY <2>1, <2>2, <2>3 DEF DropTargets, DropFails, CleanupLost, CleanerCrash
  <1>3. JobCounted' /\ ExpectedCounted'
    BY <1>1, <1>2, SameCounts
  <1>4. \/ cleaner' = CleanerStops(c)
        \/ \E step \in {"load", "drop", "complete", "fail"} : cleaner' = CleanerGoes(c, step)
    BY DEF DropTargets, DropFails, CompleteCleanup, FailCleanup, CleanupLost, CleanerCrash
  <1>5. CleanersTyped' /\ TokensBehind' /\ TargetsWithdrawn'
    BY <1>1, <1>2, <1>4, CleanerMoves DEF CleanupInv, JobTyped
  <1> QED
    BY <1>1, <1>2, <1>3, <1>5 DEF CleanupInv

\* The lease runs out under a working cleaner.
LEMMA ExpiryCounts ==
  ASSUME CleanupInv, CleanupLeaseExpires
  PROVE  CleanupInv'
  <1>1. BuildKept' /\ LiveRuns' = LiveRuns /\ UNCHANGED <<run, dataset, cleaner>>
    BY SameVars DEF CleanupInv, CleanupLeaseExpires
  <1>2. /\ JobTyped' /\ job.status = "RUNNING" /\ job'.status # "NONE"
        /\ job'.token = job.token /\ job'.attempt = job.attempt
        /\ job'.armedAt = job.armedAt /\ job'.expected = job.expected
    BY DEF CleanupLeaseExpires, CleanupInv, JobTyped
  <1>3. JobCounted' /\ ExpectedCounted'
    BY <1>1, <1>2, SameCounts
  <1>4. CleanersTyped' /\ TokensBehind' /\ TargetsWithdrawn'
    BY <1>1, <1>2 DEF CleanupInv, CleanersTyped, TokensBehind, TargetsWithdrawn
  <1> QED
    BY <1>1, <1>2, <1>3, <1>4 DEF CleanupInv

\* A step that changes nothing keeps every part.
LEMMA StutterCounts ==
  ASSUME CleanupInv, UNCHANGED cleanupVars
  PROVE  CleanupInv'
  <1>1. [Next]_vars /\ UNCHANGED <<job, cleaner>>
    BY DEF cleanupVars
  <1> QED
    BY <1>1, BuildStepCounts

\* Every step of the composition, by the actor that takes it.
LEMMA CleanupStepInv == CleanupInv /\ [CleanupNext]_cleanupVars => CleanupInv'
  <1> SUFFICES ASSUME CleanupInv, [CleanupNext]_cleanupVars
               PROVE  CleanupInv'
    OBVIOUS
  <1>1. CASE Next /\ UNCHANGED <<job, cleaner>>
    BY <1>1, BuildStepCounts
  <1>2. CASE Delete \/ Regenerate \/ CleanupLeaseExpires
    BY <1>2, DeleteCounts, RegenerateCounts, ExpiryCounts
  <1>3. ASSUME NEW c \in Cleaners, ClaimCleanup(c) \/ CleanerWork(c) \/ CleanerCrash(c)
        PROVE  CleanupInv'
    BY <1>3, ClaimCounts, LoadCounts, CleanerSteps DEF CleanerWork
  <1> QED
    BY <1>1, <1>2, <1>3, StutterCounts DEF CleanupNext

\* What the theorems below rest on.
LEMMA CleanupInductive == CleanupSpec => []CleanupInv
  BY CleanupInitInv, CleanupStepInv, PTL DEF CleanupSpec

\* The claims of the cleanup job are bounded by the versions and its attempt
\* budget: each deletion that re-arms it (Enqueue) is of a newer version.
LEMMA TokensBounded ==
  ASSUME CleanupInv
  PROVE  job.token \in 0..MaxToken
  <1>1. /\ job.token \in Nat /\ job.attempt \in Nat /\ job.attempt <= MaxCleanupAttempts
        /\ job.armedAt \in Nat /\ MaxCleanupAttempts \in Nat /\ MaxVersion \in Nat
        /\ dataset.latest \in Nat /\ dataset.latest <= MaxVersion
    BY CleanupAssumption, BuildAssumption
    DEF CleanupInv, JobTyped, BuildKept, ControlInv, Typed, TypeOK, DatasetRecord, Versions
  <1>2. PICK top \in Nat : top = MaxVersion * MaxCleanupAttempts
    BY <1>1
  <1>3. CASE job.status = "NONE"
    BY <1>1, <1>2, <1>3 DEF CleanupInv, JobCounted, MaxToken
  <1>4. CASE job.status # "NONE"
    <2>1. /\ job.armedAt >= 1 /\ job.armedAt <= dataset.latest
          /\ job.token <= (job.armedAt - 1) * MaxCleanupAttempts + job.attempt
      BY <1>4 DEF CleanupInv, JobCounted
    <2>2. PICK a \in Nat : a = job.armedAt - 1 /\ a < MaxVersion
      BY <1>1, <2>1
    <2>3. a * MaxCleanupAttempts + MaxCleanupAttempts <= top /\ a * MaxCleanupAttempts \in Nat
      BY <1>1, <1>2, <2>2, Product
    <2>4. job.token <= a * MaxCleanupAttempts + job.attempt
      BY <2>1, <2>2
    <2>5. job.token <= top
      BY <1>1, <2>3, <2>4
    <2> QED
      BY <1>1, <1>2, <2>5 DEF MaxToken
  <1> QED
    BY <1>3, <1>4

\* Every variable of the composition keeps its type: the attempt counter never
\* passes its budget, and no more leases are handed out than deletions times
\* attempts, though a job is armed again while old cleaners are still at work.
THEOREM CleanupTypeCorrect == CleanupSpec => []CleanupTypeOK
  <1>1. CleanupInv => CleanupTypeOK
    <2> SUFFICES ASSUME CleanupInv PROVE CleanupTypeOK
      OBVIOUS
    <2>1. job.token \in 0..MaxToken /\ MaxToken \in Nat
      <3>1. MaxVersion \in Nat /\ MaxCleanupAttempts \in Nat
        BY CleanupAssumption, BuildAssumption
      <3> QED
        BY <3>1, TokensBounded DEF MaxToken
    <2>2. job \in [status: JobStatuses, expected: 0..Cardinality(Runs),
                   attempt: 0..MaxCleanupAttempts, token: 0..MaxToken,
                   expired: BOOLEAN, armedAt: Versions]
      BY <2>1 DEF CleanupInv, JobTyped
    <2>3. \A c \in Cleaners : cleaner[c].token \in 0..MaxToken
      BY <2>1 DEF CleanupInv, CleanersTyped, TokensBehind
    <2>4. cleaner \in [Cleaners ->
            [pc: {"idle", "load", "drop", "complete", "fail"}, token: 0..MaxToken,
             targets: SUBSET Targets]]
      BY <2>3 DEF CleanupInv, CleanersTyped
    <2> QED
      BY <2>2, <2>4 DEF CleanupTypeOK, CleanupInv, BuildKept, ControlInv, Typed
  <1> QED
    BY <1>1, CleanupInductive, PTL

\* Whatever a cleaner drops, however late, was built for a withdrawn version:
\* the count recorded by the deletion ties the loaded targets to it, and a
\* withdrawn version is never published again.
THEOREM DropsWithdrawn == CleanupSpec => DropsOnlyWithdrawn
  <1>1. ASSUME CleanupInv, [CleanupNext]_cleanupVars, NEW r \in Runs, table[r] # 0, table'[r] = 0
        PROVE  run[r].version \notin dataset.published
    <2>1. CASE [Next]_vars
      BY <1>1, <2>1, AttemptsStep DEF CleanupInv, BuildKept, ControlInv
    <2>2. ASSUME NEW c \in Cleaners, DropTargets(c)
          PROVE  run[r].version \notin dataset.published
      <3>1. \E t \in cleaner[c].targets : t.run = r
        BY <1>1, <2>2 DEF DropTargets
      <3> QED
        BY <1>1, <3>1 DEF CleanupInv, TargetsWithdrawn
    <2>3. CASE UNCHANGED table
      BY <1>1, <2>3
    <2>4. [Next]_vars \/ UNCHANGED table \/ \E c \in Cleaners : DropTargets(c)
      BY <1>1 DEF cleanupVars, CleanupNext, CleanerWork, Delete, Regenerate, CleanupLeaseExpires,
         ClaimCleanup, LoadTargets, DropFails, CompleteCleanup, FailCleanup, CleanupLost,
         CleanerCrash, warehouse, vars
    <2> QED
      BY <2>1, <2>2, <2>3, <2>4
  <1>2. CleanupInv /\ [CleanupNext]_cleanupVars =>
          [\A r \in Runs :
             table[r] # 0 /\ table'[r] = 0 => run[r].version \notin dataset.published]_cleanupVars
    BY <1>1
  <1> QED
    BY <1>2, CleanupInductive, PTL DEF CleanupSpec, DropsOnlyWithdrawn

\* A cleaner whose lease was taken over writes neither the job nor a row: what
\* it may still do in the control database asks for its token.
THEOREM CleanerSuperseded == CleanupSpec => SupersededCleanerWritesNothing
  <1>1. ASSUME CleanupInv, [CleanupNext]_cleanupVars, NEW c \in Cleaners,
               cleaner[c].pc # "idle", cleaner[c].token # job.token, cleaner'[c] # cleaner[c]
        PROVE  UNCHANGED <<control, job>>
    <2>1. ASSUME NEW d \in Cleaners, ClaimCleanup(d) \/ CleanerWork(d) \/ CleanerCrash(d)
          PROVE  UNCHANGED <<control, job>>
      <3>1. d = c
        <4>1. \E v : cleaner' = [cleaner EXCEPT ![d] = v]
          BY <2>1 DEF ClaimCleanup, CleanerWork, CleanerCrash, LoadTargets, DropTargets, DropFails,
             CompleteCleanup, FailCleanup, CleanupLost, CleanerStops, CleanerGoes
        <4> QED
          BY <1>1, <4>1 DEF CleanupInv, CleanersTyped
      <3> QED
        BY <1>1, <2>1, <3>1
        DEF ClaimCleanup, CleanerWork, CleanerCrash, LoadTargets, DropTargets, DropFails,
            CompleteCleanup, FailCleanup, CleanupLost, HoldsLease, HoldsToken, vars, control
    <2>2. ~UNCHANGED cleaner
      BY <1>1
    <2> QED
      BY <1>1, <2>1, <2>2 DEF CleanupNext, cleanupVars, Delete, Regenerate, CleanupLeaseExpires
  <1>2. CleanupInv /\ [CleanupNext]_cleanupVars =>
          [\A c \in Cleaners :
             (cleaner[c].pc # "idle" /\ cleaner[c].token # job.token)
               => (cleaner'[c] = cleaner[c] \/ UNCHANGED <<control, job>>)]_cleanupVars
    BY <1>1
  <1> QED
    BY <1>2, CleanupInductive, PTL DEF CleanupSpec, SupersededCleanerWritesNothing

-----------------------------------------------------------------------------
(* The last cleanup leaves nothing to read, when one transaction covers    *)
(* both stores: a torn activation would leave a view over a run that is no *)
(* target.                                                                 *)

\* Every view, published or retired, selects from the existing table of a live
\* run: the run is a target while anything can be read of it (Activate).
ViewsLive ==
  /\ view # NoRun => view \in Runs /\ Live(view) /\ table[view] # 0
  /\ \A p \in retired : Live(p[2]) /\ table[p[2]] # 0

NothingReadable == view = NoRun /\ retired = {}

\* The job belongs to the latest deletion, and c is the cleaner that works on it.
ArmedLast == job.armedAt = dataset.latest
WorksOnLast(c) == job.status = "RUNNING" /\ job.token = cleaner[c].token /\ ArmedLast

LastCleanup ==
  /\ \A c \in Cleaners : WorksOnLast(c) =>
       /\ cleaner[c].pc = "drop" => LiveRuns \subseteq {t.run : t \in cleaner[c].targets}
       /\ cleaner[c].pc = "complete" => NothingReadable
  /\ job.status = "SUCCEEDED" /\ ArmedLast => NothingReadable /\ Active = {}

\* A drop takes each dependent view with its table; nothing else takes a table.
LEMMA ViewsLiveStep ==
  ASSUME SharedPool, CleanupInv, ViewsLive, [CleanupNext]_cleanupVars
  PROVE  ViewsLive'
  <1>1. CASE [Next]_vars
    <2>1. \A r \in Runs : (Live(r) => Live(r)') /\ (table[r] # 0 => table'[r] # 0)
      BY <1>1, LiveStep, AttemptsStep DEF CleanupInv, BuildKept, ControlInv
    <2>2. \A p \in retired : p[2] \in Runs
      BY DEF CleanupInv, BuildKept, ControlInv, Typed, TypeOK
    <2>3. CASE UNCHANGED <<view, retired>>
      BY <2>1, <2>2, <2>3 DEF ViewsLive
    <2>4. ASSUME NEW w \in Workers, Activate(w)
          PROVE  ViewsLive'
      <3>1. PICK r \in Runs, m \in Runs : r = worker[w].run /\ ActivatedBy(r, m)
        BY <2>4, ActivateEffect DEF CleanupInv, BuildKept, ControlInv
      <3>2. Live(r)'
        BY <3>1, BuildAssumption DEF ActivatedBy, Live
      <3>3. table[r] # 0 /\ view' = r /\ retired' = RetireView(r)
        BY <2>4, <3>1 DEF Activate, Switchable, SwitchPublishedView
      <3>4. table'[r] # 0
        BY <2>1, <3>3
      <3>5. retired' \subseteq retired \union {<<Served, view>>} /\ (view = NoRun => retired' = retired)
        BY <3>3 DEF RetireView
      <3>6. ASSUME NEW p \in retired'
            PROVE  Live(p[2])' /\ table'[p[2]] # 0
        <4>1. p[2] \in Runs /\ Live(p[2]) /\ table[p[2]] # 0
          BY <2>2, <3>5 DEF ViewsLive
        <4> QED
          BY <2>1, <4>1
      <3> QED
        BY <3>2, <3>3, <3>4, <3>6 DEF ViewsLive
    <2>5. UNCHANGED <<view, retired>> \/ \E w \in Workers : Activate(w)
      <3>1. ASSUME NEW w \in Workers, BeginRefresh(w) \/ BeginBuild(w) \/ Build(w) \/ Fail(w)
            PROVE  UNCHANGED <<view, retired>>
        BY <3>1 DEF BeginRefresh, BeginBuild, Build, Fail, warehouse
      <3>2. ~\E w \in Workers : TornActivation(w)
        BY DEF TornActivation
      <3> QED
        BY <1>1, <3>1, <3>2, StepKinds DEF CleanupInv, BuildKept, ControlInv
    <2> QED
      BY <2>3, <2>4, <2>5
  <1>2. ASSUME NEW c \in Cleaners, DropTargets(c)
        PROVE  ViewsLive'
    <2>1. PICK dropped : /\ table' = [r \in Runs |-> IF r \in dropped THEN 0 ELSE table[r]]
                         /\ view' = IF view \in dropped THEN NoRun ELSE view
                         /\ retired' = {p \in retired : p[2] \notin dropped}
      BY <1>2 DEF DropTargets
    <2>2. \A r \in Runs : Live(r) <=> Live(r)'
      BY <1>2, DropKept DEF CleanupInv, LiveRuns
    <2>3. \A p \in retired : p[2] \in Runs
      BY DEF CleanupInv, BuildKept, ControlInv, Typed, TypeOK
    <2> QED
      BY <2>1, <2>2, <2>3 DEF ViewsLive
  <1>3. ASSUME LiveRuns' = LiveRuns, UNCHANGED <<table, view, retired>>
        PROVE  ViewsLive'
    <2>1. \A r \in Runs : Live(r) <=> Live(r)'
      BY <1>3 DEF LiveRuns
    <2>2. \A p \in retired : p[2] \in Runs
      BY DEF CleanupInv, BuildKept, ControlInv, Typed, TypeOK
    <2> QED
      BY <1>3, <2>1, <2>2 DEF ViewsLive
  <1>4. CASE Delete \/ Regenerate
    BY <1>3, <1>4, DeleteKept, RegenerateKept DEF CleanupInv, SameBuild
  <1>5. ASSUME NEW c \in Cleaners, CompleteCleanup(c)
        PROVE  ViewsLive'
    BY <1>3, <1>5, CompleteKept DEF CleanupInv, CompleteCleanup, warehouse
  <1>6. CASE UNCHANGED vars
    BY <1>1, <1>6
  <1>7. \/ [Next]_vars \/ UNCHANGED vars \/ Delete \/ Regenerate
        \/ \E c \in Cleaners : DropTargets(c) \/ CompleteCleanup(c)
    BY DEF CleanupNext, cleanupVars, CleanerWork, CleanupLeaseExpires, ClaimCleanup, LoadTargets,
       DropFails, FailCleanup, CleanupLost, CleanerCrash
  <1> QED
    BY <1>1, <1>2, <1>4, <1>5, <1>6, <1>7

\* While the dataset is deleted no build can run, so no row, snapshot or view
\* changes on the build side (VersionsKept: an unfinished run is of a published
\* version).
LEMMA DeletedStep ==
  ASSUME BuildKept, [Next]_vars, dataset.deleted
  PROVE  UNCHANGED <<view, retired, snap, mat>> /\ LiveRuns' = LiveRuns /\ Active' = Active
  <1>1. \A r \in Runs : run[r].status # "RUNNING"
    BY DEF BuildKept, VersionsKept, Unfinished
  <1>2. ASSUME NEW w \in Workers, \/ BeginRefresh(w) \/ BeginBuild(w)
                                  \/ Activate(w) \/ TornActivation(w) \/ Fail(w)
        PROVE  FALSE
    <2>1. Owns(w) /\ worker[w].run \in Runs
      BY <1>2 DEF BeginRefresh, BeginBuild, Activate, TornActivation, Fail, Owns,
         BuildKept, ControlInv, Typed, WorkerHasRun
    <2> QED
      BY <1>1, <2>1 DEF Owns
  <1>3. ASSUME NEW w \in Workers, Build(w)
        PROVE  UNCHANGED <<view, retired, snap, mat>>
    BY <1>3 DEF Build, control
  <1>4. UNCHANGED <<view, retired, snap, mat>>
    BY <1>2, <1>3, StepKinds DEF BuildKept, ControlInv
  <1> QED
    BY <1>4 DEF LiveRuns, Live, Active

\* The job of the latest deletion, once armed, finds the dataset deleted.
LEMMA ArmedLastIsDeleted ==
  ASSUME CleanupInv, job.status # "NONE", ArmedLast
  PROVE  dataset.deleted
  <1>1. job.armedAt \in Nat
    BY BuildAssumption DEF CleanupInv, JobTyped, Versions
  <1> QED
    BY <1>1 DEF CleanupInv, JobCounted, ArmedLast

\* Every step keeps it: the cleaner at work on the last job has loaded all that
\* is live, and has dropped all that could be read before it completes.
LEMMA LastCleanupStep ==
  ASSUME CleanupInv, CleanupInv', ViewsLive, LastCleanup, [CleanupNext]_cleanupVars
  PROVE  LastCleanup'
  <1>0. /\ job.armedAt \in Nat /\ job'.armedAt \in Nat /\ job.token \in Nat
        /\ dataset.latest \in Nat /\ dataset'.latest \in Nat
        /\ \A c \in Cleaners : cleaner[c].token \in Nat /\ cleaner[c].token <= job.token
    BY BuildAssumption DEF CleanupInv, JobTyped, CleanersTyped, TokensBehind, Versions, BuildKept,
       ControlInv, Typed, TypeOK, DatasetRecord
  <1>1. ASSUME [Next]_vars, UNCHANGED <<job, cleaner>>
        PROVE  LastCleanup'
    <2>1. dataset.latest <= dataset'.latest
      BY <1>1, VersionsStep DEF CleanupInv, BuildKept, ControlInv
    <2>2. job.status # "NONE" /\ ArmedLast' => ArmedLast
      BY <1>0, <1>1, <2>1 DEF ArmedLast, CleanupInv, JobCounted
    <2>3. job.status # "NONE" /\ ArmedLast'
            => UNCHANGED <<view, retired>> /\ LiveRuns' = LiveRuns /\ Active' = Active
      BY <1>1, <2>2, ArmedLastIsDeleted, DeletedStep DEF CleanupInv
    <2> QED
      BY <1>1, <2>2, <2>3 DEF LastCleanup, WorksOnLast, NothingReadable
  <1>2. CASE Delete
    <2>1. dataset'.latest = dataset.latest /\ UNCHANGED cleaner
      BY <1>2, DeleteKept DEF Delete, CleanupInv
    <2>2. UNCHANGED job \/ job'.status = "QUEUED"
      BY <1>2 DEF Delete, ArmCleanup, CleanupInv, JobTyped
    <2>3. UNCHANGED job /\ job.status # "NONE" => ~ArmedLast'
      <3>1. ~dataset.deleted
        BY <1>2 DEF Delete
      <3> QED
        BY <2>1, <3>1, ArmedLastIsDeleted DEF ArmedLast
    <2> QED
      BY <2>2, <2>3 DEF LastCleanup, WorksOnLast
  <1>3. CASE Regenerate
    <2>1. dataset'.latest = dataset.latest + 1 /\ UNCHANGED job
      BY <1>3, RegenerateKept DEF Regenerate, CleanupInv
    <2>2. job.status # "NONE" => ~ArmedLast'
      BY <1>0, <2>1 DEF ArmedLast, CleanupInv, JobCounted
    <2> QED
      BY <2>1, <2>2 DEF LastCleanup, WorksOnLast
  <1>4. CASE CleanupLeaseExpires
    <2>1. job.status = "RUNNING" /\ job'.status = "RUNNING" /\ job'.token = job.token
          /\ job'.armedAt = job.armedAt /\ UNCHANGED <<dataset, cleaner, view, retired>>
      BY <1>4 DEF CleanupLeaseExpires, CleanupInv, JobTyped, vars
    <2>2. LiveRuns' = LiveRuns
      BY <1>4, SameVars DEF CleanupLeaseExpires, CleanupInv
    <2> QED
      BY <2>1, <2>2 DEF LastCleanup, WorksOnLast, ArmedLast, NothingReadable
  <1>5. ASSUME NEW c \in Cleaners, ClaimCleanup(c)
        PROVE  LastCleanup'
    <2>1. job'.token = job.token + 1 /\ job'.status = "RUNNING"
      BY <1>5 DEF ClaimCleanup, CleanupInv, JobTyped
    <2>2. cleaner'[c].pc = "load" /\ \A d \in Cleaners \ {c} : cleaner'[d] = cleaner[d]
      BY <1>5 DEF ClaimCleanup, CleanupInv, CleanersTyped
    <2>3. \A d \in Cleaners \ {c} : job'.token # cleaner'[d].token
      BY <1>0, <2>1, <2>2
    <2> QED
      BY <2>1, <2>2, <2>3 DEF LastCleanup, WorksOnLast
  <1>6. ASSUME NEW c \in Cleaners, LoadTargets(c)
        PROVE  LastCleanup'
    <2>1. UNCHANGED <<job, dataset, view, retired, mat>> /\ LiveRuns' = LiveRuns
      BY <1>6, SameVars DEF LoadTargets, CleanupInv, vars
    <2>2. \/ cleaner' = [cleaner EXCEPT ![c].pc = "drop", ![c].targets = CleanupTargets]
          \/ cleaner' = CleanerGoes(c, "fail")
      BY <1>6 DEF LoadTargets
    <2>3. /\ \A d \in Cleaners \ {c} : cleaner'[d] = cleaner[d]
          /\ cleaner'[c].pc = "fail" \/ (cleaner'[c].pc = "drop" /\ cleaner'[c].targets = CleanupTargets)
      BY <2>2 DEF CleanerGoes, CleanupInv, CleanersTyped
    <2>4. {t.run : t \in CleanupTargets} = LiveRuns
      BY TargetsLive DEF CleanupInv
    <2>5. Active' = Active
      BY <2>1 DEF Active
    <2> QED
      BY <2>1, <2>3, <2>4, <2>5 DEF LastCleanup, WorksOnLast, ArmedLast, NothingReadable
  <1>7. ASSUME NEW c \in Cleaners, DropTargets(c)
        PROVE  LastCleanup'
    <2>1. UNCHANGED <<job, dataset, mat>> /\ LiveRuns' = LiveRuns
      BY <1>7, DropKept DEF DropTargets, CleanupInv
    <2>2. /\ \A d \in Cleaners \ {c} : cleaner'[d] = cleaner[d]
          /\ cleaner[c].pc = "drop" /\ cleaner'[c].pc = "complete" /\ cleaner'[c].token = cleaner[c].token
      BY <1>7 DEF DropTargets, CleanerGoes, CleanupInv, CleanersTyped
    <2>3. NothingReadable => NothingReadable'
      BY <1>7 DEF DropTargets, NothingReadable
    <2>4. ASSUME WorksOnLast(c)
          PROVE  NothingReadable'
      <3>1. \A r \in LiveRuns : \E t \in cleaner[c].targets : t.run = r
        BY <2>2, <2>4 DEF LastCleanup
      <3>2. PICK dropped : /\ dropped = {t.run : t \in {u \in cleaner[c].targets : table[u.run] # 0}}
                           /\ view' = IF view \in dropped THEN NoRun ELSE view
                           /\ retired' = {p \in retired : p[2] \notin dropped}
        BY <1>7 DEF DropTargets
      <3>3. \A r \in Runs : Live(r) /\ table[r] # 0 => r \in dropped
        BY <3>1, <3>2 DEF LiveRuns
      <3>4. \A p \in retired : p[2] \in Runs
        BY DEF CleanupInv, BuildKept, ControlInv, Typed, TypeOK
      <3> QED
        BY <3>2, <3>3, <3>4 DEF NothingReadable, ViewsLive
    <2>5. Active' = Active
      BY <2>1 DEF Active
    <2>6. \A d \in Cleaners : WorksOnLast(d)' => WorksOnLast(d)
      BY <2>1, <2>2 DEF WorksOnLast, ArmedLast
    <2> QED
      BY <2>1, <2>2, <2>3, <2>4, <2>5, <2>6 DEF LastCleanup, ArmedLast
  <1>8. ASSUME NEW c \in Cleaners, CompleteCleanup(c)
        PROVE  LastCleanup'
    <2>1. Active' = {} /\ UNCHANGED <<dataset, view, retired>>
      BY <1>8, CompleteKept DEF CompleteCleanup, CleanupInv, warehouse
    <2>2. job'.status = "SUCCEEDED" /\ job'.armedAt = job.armedAt
      BY <1>8 DEF CompleteCleanup, CleanupInv, JobTyped
    <2>3. ArmedLast' => NothingReadable
      BY <1>8, <2>1, <2>2
      DEF CompleteCleanup, HoldsLease, HoldsToken, LastCleanup, WorksOnLast, ArmedLast
    <2> QED
      BY <2>1, <2>2, <2>3 DEF LastCleanup, WorksOnLast, NothingReadable
  <1>9. ASSUME NEW c \in Cleaners, FailCleanup(c)
        PROVE  LastCleanup'
    <2>1. job'.status \in {"FAILED", "QUEUED"}
      BY <1>9 DEF FailCleanup, CleanupInv, JobTyped
    <2> QED
      BY <2>1 DEF LastCleanup, WorksOnLast
  <1>10. ASSUME NEW c \in Cleaners, DropFails(c) \/ CleanupLost(c) \/ CleanerCrash(c)
         PROVE  LastCleanup'
    <2>1. UNCHANGED <<job, dataset, view, retired, mat>> /\ LiveRuns' = LiveRuns
      BY <1>10, SameVars DEF DropFails, CleanupLost, CleanerCrash, CleanupInv, vars
    <2>2. cleaner' = CleanerStops(c) \/ cleaner' = CleanerGoes(c, "fail")
      BY <1>10 DEF DropFails, CleanupLost, CleanerCrash
    <2>3. cleaner'[c].pc \in {"idle", "fail"} /\ \A d \in Cleaners \ {c} : cleaner'[d] = cleaner[d]
      BY <2>2 DEF CleanerStops, CleanerGoes, CleanerIdle, CleanupInv, CleanersTyped
    <2>4. Active' = Active
      BY <2>1 DEF Active
    <2> QED
      BY <2>1, <2>3, <2>4 DEF LastCleanup, WorksOnLast, ArmedLast, NothingReadable
  <1> QED
    BY <1>1, <1>2, <1>3, <1>4, <1>5, <1>6, <1>7, <1>8, <1>9, <1>10
    DEF CleanupNext, CleanerWork, cleanupVars

\* With one pool for both stores, nothing of the dataset can be read once the
\* cleanup armed by its latest deletion has succeeded, whatever earlier cleaners
\* and builds were under way in between.
THEOREM LastCleanupCompletes == SharedPool => (CleanupSpec => []LastCleanupIsComplete)
  <1> SUFFICES ASSUME SharedPool PROVE CleanupSpec => []LastCleanupIsComplete
    OBVIOUS
  <1>1. CleanupInit => ViewsLive /\ LastCleanup
    BY DEF CleanupInit, Init, CleanerIdle, ViewsLive, LastCleanup, WorksOnLast
  <1>2. CleanupInv /\ ViewsLive /\ LastCleanup /\ [CleanupNext]_cleanupVars
          => ViewsLive' /\ LastCleanup'
    BY CleanupStepInv, ViewsLiveStep, LastCleanupStep
  <1>3. LastCleanup => LastCleanupIsComplete
    BY DEF LastCleanup, LastCleanupIsComplete, ArmedLast, NothingReadable
  <1> QED
    BY <1>1, <1>2, <1>3, CleanupInductive, PTL DEF CleanupSpec

-----------------------------------------------------------------------------
(* Refinement: deletion stutters, completion withdraws.                    *)

\* To readers of the control database a deletion and its cleanup are one
\* withdrawal besides the publications.
THEOREM WithdrawalImplemented == CleanupSpec => WithdrawableImplementsPublication
  <1>1. CleanupInit => Publication!Init
    <2> SUFFICES ASSUME CleanupInit PROVE Publication!Init
      OBVIOUS
    <2>1. \A r \in Runs : Phase(r) = "none"
      BY DEF CleanupInit, Init, Phase
    <2>2. Served = NoRun
      BY DEF CleanupInit, Init, Served, Active
    <2> QED
      BY <2>1, <2>2 DEF Publication!Init
  <1>2. CleanupInv /\ [CleanupNext]_cleanupVars => [Publication!Next]_(Publication!pubVars)
    <2> SUFFICES ASSUME CleanupInv, [CleanupNext]_cleanupVars
                 PROVE  [Publication!Next]_(Publication!pubVars)
      OBVIOUS
    <2>1. CASE [Next]_vars
      BY <2>1, PublicationStep DEF CleanupInv, BuildKept
    <2>2. CASE UNCHANGED <<run, mat>>
      <3>1. Served' = Served
        BY <2>2, SameServed DEF Active
      <3> QED
        BY <2>2, <3>1, SamePhases DEF Publication!pubVars, phases
    <2>3. ASSUME NEW c \in Cleaners, CompleteCleanup(c)
          PROVE  Publication!Next
      <3>1. Active' = {} /\ UNCHANGED run
        BY <2>3, CompleteKept DEF CleanupInv
      <3>2. Served' = NoRun /\ phases' = phases
        BY <3>1, SamePhases DEF Served
      <3> QED
        BY <3>2 DEF Publication!Next, Publication!Withdraw, phases
    <2>4. [Next]_vars \/ UNCHANGED <<run, mat>> \/ \E c \in Cleaners : CompleteCleanup(c)
      <3>1. Delete \/ Regenerate => UNCHANGED <<run, mat>>
        BY DeleteKept, RegenerateKept DEF CleanupInv, SameBuild
      <3> QED
        BY <3>1 DEF CleanupNext, cleanupVars, CleanerWork, CleanupLeaseExpires, ClaimCleanup,
           LoadTargets, DropTargets, DropFails, FailCleanup, CleanupLost, CleanerCrash, control, vars
    <2> QED
      BY <2>1, <2>2, <2>3, <2>4
  <1> QED
    BY <1>1, <1>2, CleanupInductive, PTL
    DEF CleanupSpec, WithdrawableImplementsPublication, Publication!Spec
=============================================================================
