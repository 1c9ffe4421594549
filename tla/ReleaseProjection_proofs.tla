------------------------ MODULE ReleaseProjection_proofs ------------------------
(***************************************************************************)
(* Proofs about ReleaseProjection, for any targets, workers, batches,      *)
(* attempts and retries.                                                   *)
(***************************************************************************)
EXTENDS ReleaseProjection, TLAPS

USE DEF stores

Pcs == {"idle", "check", "write", "complete", "counted", "failing", "blocked"}

Typed ==
  /\ release \in {"DRAFT", "PROJECTING", "BLOCKED", "READY"}
  /\ row \in [Targets -> RowRecord]
  /\ copy \in [Targets -> SUBSET Nat] /\ applied \in [Targets -> SUBSET Nat]
  /\ worker \in [Workers -> WorkerRecord]
  /\ retried \in 0..Retries

\* A claim has written what it says, also when its lease is lost; whether it is
\* still there is another matter (CopiesOK).
Wrote(w) ==
  LET t == worker[w].target IN
    /\ t \in Targets /\ worker[w].written <= Batches[t]
    /\ 1..worker[w].written \subseteq applied[t]
    /\ At(w, "write") => worker[w].written < Batches[t]
    /\ worker[w].pc \in {"complete", "counted"} => worker[w].written = Batches[t]

\* A transaction that locks its row holds it, and what a completion counted as
\* READY is so.
Locks(w) ==
  /\ worker[w].pc \in {"counted", "blocked"} => Holds(w)
  /\ At(w, "counted") /\ worker[w].all => OthersReady(worker[w].target)

WorkersOK == \A w \in Workers : worker[w].pc # "idle" => Wrote(w) /\ Locks(w)

CopiesOK ==
  \A t \in Targets : /\ applied[t] \subseteq 1..Batches[t]
                     /\ t \notin Shared => copy[t] = applied[t]
                     /\ row[t].status = "READY" => applied[t] = 1..Batches[t]

ReleaseOK ==
  /\ release = "DRAFT" => \A t \in Targets : row[t].status = "NONE"
  /\ release = "READY" => \A t \in Targets : row[t].status = "READY"

ProjectionInv == Typed /\ WorkersOK /\ CopiesOK /\ ReleaseOK

\* What every step grants the other workers: READY rows and what has been
\* applied stay, and so does a row that a transaction has locked.
Grants ==
  /\ \A t \in Targets : row[t].status = "READY" => row'[t] = row[t]
  /\ \A t \in Targets : applied[t] \subseteq applied'[t]

-----------------------------------------------------------------------------
\* A worker that does not move is as it was, when its locked row is.
LEMMA WorkerKeeps ==
  ASSUME ProjectionInv, Grants, NEW w \in Workers, worker'[w] = worker[w],
         worker[w].pc # "idle",
         worker[w].pc \in {"counted", "blocked"} => Holds(w)'
  PROVE  Wrote(w)' /\ Locks(w)'
  <1> USE DEF ProjectionInv, WorkersOK
  <1>1. Wrote(w)'
    BY DEF Wrote, Grants, At
  <1>2. At(w, "counted") /\ worker[w].all => OthersReady(worker[w].target)'
    BY DEF Locks, Wrote, OthersReady, Grants
  <1> QED
    BY <1>1, <1>2 DEF Locks, At

\* A step of one worker that leaves the rows alone.
LEMMA WorkerMoves ==
  ASSUME ProjectionInv, NEW w \in Workers, UNCHANGED <<release, row, retried>>,
         NEW record \in WorkerRecord, worker' = [worker EXCEPT ![w] = record],
         copy' \in [Targets -> SUBSET Nat], applied' \in [Targets -> SUBSET Nat],
         \A t \in Targets \ Shared : copy'[t] = applied'[t],
         \A t \in Targets : applied[t] \subseteq applied'[t] /\ applied'[t] \subseteq 1..Batches[t],
         record.pc # "idle" => Wrote(w)' /\ Locks(w)'
  PROVE  ProjectionInv'
  <1> USE DEF ProjectionInv
  <1>1. Typed'
    BY DEF Typed
  <1>2. Grants
    BY DEF Grants
  <1>3. WorkersOK'
    <2> SUFFICES ASSUME NEW v \in Workers, worker'[v].pc # "idle" PROVE Wrote(v)' /\ Locks(v)'
      BY DEF WorkersOK
    <2>1. CASE v = w
      BY <2>1 DEF Typed
    <2>2. CASE v # w
      <3>1. worker'[v] = worker[v]
        BY <2>2 DEF Typed
      <3>2. worker[v].pc \in {"counted", "blocked"} => Holds(v)'
        BY <3>1 DEF WorkersOK, Locks, Holds
      <3> QED
        BY <1>2, <3>1, <3>2, WorkerKeeps
    <2> QED
      BY <2>1, <2>2
  <1>4. CopiesOK' /\ ReleaseOK'
    BY DEF CopiesOK, ReleaseOK
  <1> QED
    BY <1>1, <1>3, <1>4

LEMMA IdleRecord == Idle \in WorkerRecord /\ Idle.pc = "idle"
  BY DEF Idle, WorkerRecord

\* A worker that gives up its claim and changes nothing.
LEMMA LeavesStep ==
  ASSUME ProjectionInv, NEW w \in Workers, Leaves(w), UNCHANGED <<release, row, stores, retried>>
  PROVE  ProjectionInv'
  <1>1. worker' = [worker EXCEPT ![w] = Idle]
    BY DEF Leaves
  <1>2. copy' \in [Targets -> SUBSET Nat] /\ applied' \in [Targets -> SUBSET Nat] /\
        (\A t \in Targets \ Shared : copy'[t] = applied'[t]) /\
        \A t \in Targets : applied[t] \subseteq applied'[t] /\ applied'[t] \subseteq 1..Batches[t]
    BY DEF ProjectionInv, Typed, CopiesOK
  <1> QED
    BY <1>1, <1>2, IdleRecord, WorkerMoves

\* A worker that goes on with its claim and changes nothing but its state.
LEMMA GoesOn ==
  ASSUME ProjectionInv, NEW w \in Workers, ~At(w, "idle"),
         UNCHANGED <<release, row, stores, retried>>,
         NEW record \in WorkerRecord, worker' = [worker EXCEPT ![w] = record],
         record.target = worker[w].target, record.written = worker[w].written,
         record.pc = "write" => record.written < Batches[record.target],
         record.pc \in {"complete", "counted"} => record.written = Batches[record.target],
         record.pc \in {"counted", "blocked"} => Holds(w),
         record.pc = "counted" /\ record.all => OthersReady(record.target)
  PROVE  ProjectionInv'
  <1>1. worker'[w] = record
    BY DEF ProjectionInv, Typed
  <1>2. Wrote(w)'
    BY <1>1 DEF ProjectionInv, WorkersOK, Wrote, At
  <1>3. Locks(w)'
    BY <1>1 DEF Locks, Holds, At, OthersReady
  <1>4. copy' \in [Targets -> SUBSET Nat] /\ applied' \in [Targets -> SUBSET Nat] /\
        (\A t \in Targets \ Shared : copy'[t] = applied'[t]) /\
        \A t \in Targets : applied[t] \subseteq applied'[t] /\ applied'[t] \subseteq 1..Batches[t]
    BY DEF ProjectionInv, Typed, CopiesOK
  <1> QED
    BY <1>2, <1>3, <1>4, WorkerMoves

\* One row changes that is not READY; workers stay, give up their claim or are
\* shown to be sound.
LEMMA RowMoves ==
  ASSUME ProjectionInv, NEW t \in Targets, NEW new \in RowRecord,
         row' = [row EXCEPT ![t] = new], row[t].status # "READY",
         new.status = "READY" => applied[t] = 1..Batches[t],
         UNCHANGED <<stores, retried>>,
         release' \in {"DRAFT", "PROJECTING", "BLOCKED", "READY"}, ReleaseOK',
         worker' \in [Workers -> WorkerRecord],
         \A v \in Workers : \/ worker'[v].pc = "idle"
                            \/ Wrote(v)' /\ Locks(v)'
                            \/ /\ worker'[v] = worker[v]
                               /\ worker[v].pc \in {"counted", "blocked"} => Holds(v)'
  PROVE  ProjectionInv'
  <1> USE DEF ProjectionInv
  <1>1. \A u \in Targets : row'[u] = IF u = t THEN new ELSE row[u]
    BY DEF Typed
  <1>2. Typed'
    BY DEF Typed
  <1>3. Grants
    BY <1>1 DEF Grants
  <1>4. WorkersOK'
    BY <1>3, WorkerKeeps DEF WorkersOK
  <1>5. CopiesOK'
    BY <1>1 DEF CopiesOK
  <1> QED
    BY <1>2, <1>4, <1>5

\* Two workers do not hold one row.
LEMMA HolderIsOne ==
  ASSUME NEW v, NEW w, v # w, Holds(v), Holds(w)
  PROVE  worker[v].target # worker[w].target
  BY DEF Holds

-----------------------------------------------------------------------------
(* The steps.                                                              *)

LEMMA StartStep == ProjectionInv /\ Start => ProjectionInv'
  <1> SUFFICES ASSUME ProjectionInv, Start PROVE ProjectionInv'
    OBVIOUS
  <1> USE ProjectionAssumption DEF ProjectionInv, Start
  <1> DEFINE pending == Row("PENDING", 0, TRUE)
  <1>1. pending \in RowRecord /\ pending.status = "PENDING"
    BY DEF Row, RowRecord
  <1>2. row' = [t \in Targets |-> pending]
    OBVIOUS
  <1> HIDE DEF pending
  <1>3. \A t \in Targets : row[t].status = "NONE" /\ row'[t].status = "PENDING"
    BY <1>1, <1>2 DEF ReleaseOK
  <1>4. Typed'
    BY <1>1, <1>2 DEF Typed
  <1>5. Grants
    BY <1>3 DEF Grants
  <1>6. WorkersOK'
    <2> SUFFICES ASSUME NEW w \in Workers, worker'[w].pc # "idle" PROVE Wrote(w)' /\ Locks(w)'
      BY DEF WorkersOK
    <2>1. worker[w].pc \notin {"counted", "blocked"}
      BY <1>3 DEF WorkersOK, Wrote, Locks, Holds
    <2> QED
      BY <1>5, <2>1, WorkerKeeps
  <1>7. CopiesOK' /\ ReleaseOK'
    BY <1>3 DEF CopiesOK, ReleaseOK
  <1> QED
    BY <1>4, <1>6, <1>7

\* A retry resets FAILED rows, which no transaction has locked.
LEMMA RetryStep == ProjectionInv /\ Retry => ProjectionInv'
  <1> SUFFICES ASSUME ProjectionInv, Retry PROVE ProjectionInv'
    OBVIOUS
  <1> USE ProjectionAssumption DEF ProjectionInv, Retry
  <1> DEFINE pending == Row("PENDING", 0, TRUE)
  <1>1. pending \in RowRecord /\ pending.status = "PENDING"
    BY DEF Row, RowRecord
  <1>2. \A t \in Targets : row'[t] = IF row[t].status = "FAILED" THEN pending ELSE row[t]
    BY DEF Reset, FailedRows
  <1> HIDE DEF pending
  <1>3. Typed'
    <2>1. \A t \in Targets : row'[t] \in RowRecord
      BY <1>1, <1>2 DEF Typed
    <2>2. row' \in [Targets -> RowRecord]
      BY <2>1
    <2>3. retried' \in 0..Retries
      BY DEF Typed
    <2> QED
      BY <2>2, <2>3 DEF Typed
  <1>4. Grants
    BY <1>2 DEF Grants
  <1>5. WorkersOK'
    <2> SUFFICES ASSUME NEW w \in Workers, worker'[w].pc # "idle" PROVE Wrote(w)' /\ Locks(w)'
      BY DEF WorkersOK
    <2>1. worker[w].pc \in {"counted", "blocked"} => Holds(w)'
      BY <1>2 DEF WorkersOK, Wrote, Locks, Holds
    <2> QED
      BY <1>4, <2>1, WorkerKeeps
  <1>6. CopiesOK' /\ ReleaseOK'
    BY <1>1, <1>2 DEF CopiesOK, ReleaseOK
  <1> QED
    BY <1>3, <1>5, <1>6

LEMMA LeaseExpiresStep ==
  ASSUME ProjectionInv, NEW t \in Targets, LeaseExpires(t)
  PROVE  ProjectionInv'
  <1> DEFINE new == [row[t] EXCEPT !.expired = TRUE]
  <1>1. row[t] \in RowRecord
    BY DEF ProjectionInv, Typed
  <1>2. /\ new \in RowRecord /\ new.status = "RUNNING" /\ new.status = row[t].status
        /\ new.holder = row[t].holder
    BY <1>1 DEF RowRecord, LeaseExpires
  <1>3. row' = [row EXCEPT ![t] = new] /\ UNCHANGED <<release, stores, worker, retried>>
    BY DEF LeaseExpires, ProjectionInv, Typed
  <1> HIDE DEF new
  <1>4. \A u \in Targets : row'[u] = IF u = t THEN new ELSE row[u]
    BY <1>3 DEF ProjectionInv, Typed
  <1>5. release' \in {"DRAFT", "PROJECTING", "BLOCKED", "READY"} /\ ReleaseOK'
        /\ worker' \in [Workers -> WorkerRecord]
    BY <1>2, <1>3, <1>4 DEF ProjectionInv, Typed, ReleaseOK
  <1>6. \A v \in Workers :
          worker[v].pc \in {"counted", "blocked"} => Holds(v)'
    BY <1>2, <1>3, <1>4 DEF ProjectionInv, WorkersOK, Wrote, Locks, Holds
  <1> QED
    BY <1>2, <1>3, <1>5, <1>6, RowMoves

\* Another release takes a batch over: what was applied stays applied.
LEMMA OverwrittenStep ==
  ASSUME ProjectionInv, NEW t \in Targets, NEW batch \in copy[t], Overwritten(t, batch)
  PROVE  ProjectionInv'
  <1> USE DEF ProjectionInv, Overwritten
  <1>1. Typed'
    BY DEF Typed
  <1>2. Grants
    BY DEF Grants
  <1>3. WorkersOK'
    <2> SUFFICES ASSUME NEW w \in Workers, worker'[w].pc # "idle" PROVE Wrote(w)' /\ Locks(w)'
      BY DEF WorkersOK
    <2>1. worker[w].pc \in {"counted", "blocked"} => Holds(w)'
      BY DEF WorkersOK, Locks, Holds
    <2> QED
      BY <1>2, <2>1, WorkerKeeps
  <1>4. CopiesOK' /\ ReleaseOK'
    BY DEF CopiesOK, ReleaseOK, Typed
  <1> QED
    BY <1>1, <1>3, <1>4

LEMMA ClaimStep ==
  ASSUME ProjectionInv, NEW w \in Workers, NEW t \in Targets, Claim(w, t)
  PROVE  ProjectionInv'
  <1> USE ProjectionAssumption
  <1> DEFINE new == [status |-> "RUNNING", attempt |-> row[t].attempt + 1, holder |-> w,
                     expired |-> FALSE, again |-> row[t].again]
             record == [Idle EXCEPT !.pc = "check", !.target = t]
  <1>1. row[t] \in RowRecord /\ row[t].attempt < MaxAttempts /\ release \in Unfinished
        /\ row[t].status \in {"PENDING", "FAILED", "RUNNING"}
    BY DEF Claim, Claimable, ProjectionInv, Typed
  <1>2. new \in RowRecord /\ new.status = "RUNNING"
    BY <1>1 DEF RowRecord
  <1>3. /\ record \in WorkerRecord /\ record.pc = "check" /\ record.target = t
        /\ record.written = 0
    BY DEF Idle, WorkerRecord
  <1>4. /\ row' = [row EXCEPT ![t] = new] /\ worker' = [worker EXCEPT ![w] = record]
        /\ UNCHANGED <<release, stores, retried>>
    BY DEF Claim
  <1> HIDE DEF new, record
  <1>5. \A u \in Targets : row'[u] = IF u = t THEN new ELSE row[u]
    BY <1>4 DEF ProjectionInv, Typed
  <1>6. /\ release' \in {"DRAFT", "PROJECTING", "BLOCKED", "READY"} /\ ReleaseOK'
        /\ worker' \in [Workers -> WorkerRecord]
    BY <1>1, <1>2, <1>3, <1>4, <1>5 DEF ProjectionInv, Typed, ReleaseOK, Unfinished
  <1>7. Wrote(w)' /\ Locks(w)'
    <2>1. worker'[w] = record
      BY <1>4 DEF ProjectionInv, Typed
    <2>2. Batches[t] \in Nat
      OBVIOUS
    <2> QED
      BY <1>3, <2>1, <2>2 DEF Wrote, Locks, At
  <1>8. \A v \in Workers : v # w => worker'[v] = worker[v]
    BY <1>4 DEF ProjectionInv, Typed
  <1>9. \A v \in Workers : worker[v].pc \in {"counted", "blocked"} => worker[v].target # t
    BY DEF Claim, Claimable, Locked
  <1>10. \A v \in Workers :
           v # w /\ worker[v].pc \in {"counted", "blocked"} => Holds(v)'
    BY <1>5, <1>8, <1>9 DEF ProjectionInv, WorkersOK, Wrote, Locks, Holds
  <1> QED
    BY <1>1, <1>2, <1>4, <1>6, <1>7, <1>8, <1>10, RowMoves

\* A worker under way and its target.
LEMMA UnderWay ==
  ASSUME ProjectionInv, NEW w \in Workers, ~At(w, "idle")
  PROVE  /\ worker[w] \in WorkerRecord /\ worker[w].target \in Targets
         /\ worker[w].written \in Nat /\ Batches[worker[w].target] \in Nat
         /\ Wrote(w) /\ Locks(w)
  BY ProjectionAssumption DEF ProjectionInv, Typed, WorkerRecord, WorkersOK, Wrote, At

LEMMA CheckStep ==
  ASSUME ProjectionInv, NEW w \in Workers, Check(w)
  PROVE  ProjectionInv'
  <1>1. UNCHANGED <<release, row, stores, retried>> /\ ~At(w, "idle")
    BY DEF Check, At
  <1>2. CASE Leaves(w)
    BY <1>1, <1>2, LeavesStep
  <1>3. CASE Becomes(w, IF worker[w].written < Batches[worker[w].target]
                        THEN "write" ELSE "complete")
    <2> DEFINE pc == IF worker[w].written < Batches[worker[w].target] THEN "write" ELSE "complete"
               record == [worker[w] EXCEPT !.pc = pc]
    <2>1. /\ pc \in {"write", "complete"}
          /\ pc = "write" => worker[w].written < Batches[worker[w].target]
          /\ pc = "complete" => worker[w].written = Batches[worker[w].target]
      BY <1>1, UnderWay DEF Wrote
    <2>2. worker' = [worker EXCEPT ![w] = record]
      BY <1>3 DEF Becomes, ProjectionInv, Typed
    <2> HIDE DEF pc
    <2>3. /\ record \in WorkerRecord /\ record.pc = pc /\ record.target = worker[w].target
          /\ record.written = worker[w].written
      BY <1>1, <2>1, UnderWay DEF WorkerRecord
    <2> HIDE DEF record
    <2> QED
      BY <1>1, <2>1, <2>2, <2>3, GoesOn
  <1> QED
    BY <1>2, <1>3 DEF Check

LEMMA WriteStep ==
  ASSUME ProjectionInv, NEW w \in Workers, Write(w)
  PROVE  ProjectionInv'
  <1> DEFINE t == worker[w].target
             batch == worker[w].written + 1
             pc == IF t \in Graph THEN "check" ELSE "complete"
             record == [worker[w] EXCEPT !.written = batch, !.pc = pc]
  <1>1. /\ UNCHANGED <<release, row, retried>> /\ ~At(w, "idle")
        /\ applied' = [applied EXCEPT ![t] = applied[t] \cup {batch}]
        /\ copy' = [copy EXCEPT ![t] = copy[t] \cup {batch}]
    BY DEF Write, At
  <1>2. /\ t \in Targets /\ worker[w].written \in Nat /\ Batches[t] \in Nat
        /\ batch \in 1..Batches[t] /\ 1..batch \subseteq applied[t] \cup {batch}
        /\ t \notin Graph => batch = Batches[t]
    <2>1. worker[w].written < Batches[t]
      BY <1>1, UnderWay DEF Write, Wrote
    <2> QED
      BY <1>1, <2>1, UnderWay, ProjectionAssumption DEF Wrote
  <1>4. worker' = [worker EXCEPT ![w] = record]
    BY DEF Write, ProjectionInv, Typed
  <1>3. /\ pc \in {"check", "complete"} /\ batch \in Nat
        /\ pc = "complete" => batch = Batches[t]
    BY <1>2
  <1> HIDE DEF pc, batch
  <1>9. /\ record \in WorkerRecord /\ record.pc = pc /\ record.target = t
        /\ record.written = batch
    BY <1>1, <1>3, UnderWay DEF WorkerRecord
  <1> HIDE DEF record
  <1>5. /\ applied' \in [Targets -> SUBSET Nat]
        /\ \A u \in Targets : applied[u] \subseteq applied'[u] /\ applied'[u] \subseteq 1..Batches[u]
        /\ applied'[t] = applied[t] \cup {batch}
    BY <1>1, <1>2 DEF ProjectionInv, Typed, CopiesOK
  <1>10. copy' \in [Targets -> SUBSET Nat] /\ \A u \in Targets \ Shared : copy'[u] = applied'[u]
    <2>1. copy \in [Targets -> SUBSET Nat] /\ applied \in [Targets -> SUBSET Nat]
      BY DEF ProjectionInv, Typed
    <2>2. copy[t] \cup {batch} \in SUBSET Nat
      BY <1>2, <1>3, <2>1
    <2>3. copy' \in [Targets -> SUBSET Nat]
      BY <1>1, <2>1, <2>2
    <2>4. ASSUME NEW u \in Targets \ Shared PROVE copy'[u] = applied'[u]
      <3>1. copy[u] = applied[u]
        BY DEF ProjectionInv, CopiesOK
      <3> QED
        BY <1>1, <2>1, <3>1
    <2> QED
      BY <2>3, <2>4
  <1>6. worker'[w] = record
    BY <1>4 DEF ProjectionInv, Typed
  <1>7. 1..batch \subseteq applied'[t]
    BY <1>2, <1>5
  <1>8. Wrote(w)' /\ Locks(w)'
    BY <1>2, <1>3, <1>6, <1>7, <1>9 DEF Wrote, Locks, At
  <1> QED
    BY <1>1, <1>4, <1>5, <1>8, <1>9, <1>10, WorkerMoves

LEMMA RefusedStep ==
  ASSUME ProjectionInv, NEW w \in Workers, NEW again \in BOOLEAN, Refused(w, again)
  PROVE  ProjectionInv'
  <1> DEFINE record == [worker[w] EXCEPT !.pc = "failing", !.again = again]
  <1>1. UNCHANGED <<release, row, stores, retried>> /\ ~At(w, "idle")
    BY DEF Refused, At
  <1>2. /\ record \in WorkerRecord /\ record.pc = "failing" /\ record.target = worker[w].target
        /\ record.written = worker[w].written
    BY <1>1, UnderWay DEF WorkerRecord
  <1>3. worker' = [worker EXCEPT ![w] = record]
    BY DEF Refused, ProjectionInv, Typed
  <1> HIDE DEF record
  <1> QED
    BY <1>1, <1>2, <1>3, GoesOn

LEMMA CountStep ==
  ASSUME ProjectionInv, NEW w \in Workers, Count(w)
  PROVE  ProjectionInv'
  <1> DEFINE all == OthersReady(worker[w].target)
             record == [worker[w] EXCEPT !.pc = "counted", !.all = all]
  <1>1. UNCHANGED <<release, row, stores, retried>> /\ ~At(w, "idle") /\ Holds(w)
    BY DEF Count, At
  <1>2. all \in BOOLEAN
    BY DEF OthersReady
  <1>3. worker' = [worker EXCEPT ![w] = record]
    BY DEF Count, ProjectionInv, Typed
  <1>4. all => OthersReady(worker[w].target)
    OBVIOUS
  <1> HIDE DEF all
  <1>5. /\ record \in WorkerRecord /\ record.pc = "counted" /\ record.target = worker[w].target
        /\ record.written = worker[w].written /\ record.all = all
    BY <1>1, <1>2, UnderWay DEF WorkerRecord
  <1>6. worker[w].written = Batches[worker[w].target]
    BY <1>1, UnderWay DEF Count, Wrote, At
  <1> HIDE DEF record
  <1> QED
    BY <1>1, <1>3, <1>4, <1>5, <1>6, GoesOn

LEMMA CompleteErrsStep ==
  ASSUME ProjectionInv, NEW w \in Workers, CompleteErrs(w)
  PROVE  ProjectionInv'
  <1> DEFINE record == [worker[w] EXCEPT !.pc = "failing", !.all = FALSE, !.again = TRUE]
  <1>1. UNCHANGED <<release, row, stores, retried>> /\ ~At(w, "idle")
    BY DEF CompleteErrs, At
  <1>2. CASE Leaves(w)
    BY <1>1, <1>2, LeavesStep
  <1>3. CASE ~Leaves(w)
    <2>1. /\ record \in WorkerRecord /\ record.pc = "failing"
          /\ record.target = worker[w].target /\ record.written = worker[w].written
      BY <1>1, UnderWay DEF WorkerRecord
    <2>2. worker' = [worker EXCEPT ![w] = record]
      BY <1>3 DEF CompleteErrs, ProjectionInv, Typed
    <2> HIDE DEF record
    <2> QED
      BY <1>1, <2>1, <2>2, GoesOn
  <1> QED
    BY <1>2, <1>3

LEMMA FailSeesBlockedStep ==
  ASSUME ProjectionInv, NEW w \in Workers, FailSeesBlocked(w)
  PROVE  ProjectionInv'
  <1> DEFINE record == [worker[w] EXCEPT !.pc = "blocked"]
  <1>1. UNCHANGED <<release, row, stores, retried>> /\ ~At(w, "idle") /\ Holds(w)
    BY DEF FailSeesBlocked, At
  <1>2. /\ record \in WorkerRecord /\ record.pc = "blocked" /\ record.target = worker[w].target
        /\ record.written = worker[w].written
    BY <1>1, UnderWay DEF WorkerRecord
  <1>3. worker' = [worker EXCEPT ![w] = record]
    BY DEF FailSeesBlocked, Becomes, ProjectionInv, Typed
  <1> HIDE DEF record
  <1> QED
    BY <1>1, <1>2, <1>3, GoesOn

\* A worker that holds its row ends its claim and writes the row.
LEMMA HolderWrites ==
  ASSUME ProjectionInv, NEW w \in Workers, ~At(w, "idle"), Holds(w), Leaves(w),
         NEW new \in RowRecord, row' = [row EXCEPT ![worker[w].target] = new],
         new.status = "READY" => applied[worker[w].target] = 1..Batches[worker[w].target],
         UNCHANGED <<stores, retried>>,
         release' \in {"PROJECTING", "BLOCKED", "READY"},
         release' = "READY" => \A u \in Targets : row'[u].status = "READY"
  PROVE  ProjectionInv'
  <1> DEFINE t == worker[w].target
  <1>1. t \in Targets /\ row[t].status # "READY"
    BY UnderWay DEF Holds
  <1>2. worker' = [worker EXCEPT ![w] = Idle]
    BY DEF Leaves
  <1>3. /\ worker' \in [Workers -> WorkerRecord] /\ worker'[w].pc = "idle"
        /\ \A v \in Workers : v # w => worker'[v] = worker[v]
    BY <1>2, IdleRecord DEF ProjectionInv, Typed
  <1>4. \A v \in Workers :
          v # w /\ worker[v].pc \in {"counted", "blocked"} => Holds(v)'
    <2> SUFFICES ASSUME NEW v \in Workers, v # w, worker[v].pc \in {"counted", "blocked"}
                 PROVE  Holds(v)'
      OBVIOUS
    <2>1. Holds(v) /\ worker[v].target \in Targets /\ worker[v].target # t
      BY HolderIsOne DEF ProjectionInv, WorkersOK, Wrote, Locks
    <2>2. row'[worker[v].target] = row[worker[v].target]
      BY <2>1 DEF ProjectionInv, Typed
    <2> QED
      BY <1>3, <2>1, <2>2 DEF Holds
  <1>5. ReleaseOK'
    BY DEF ReleaseOK
  <1> QED
    BY <1>1, <1>3, <1>4, <1>5, RowMoves

LEMMA CommitStep ==
  ASSUME ProjectionInv, NEW w \in Workers, Commit(w)
  PROVE  ProjectionInv'
  <1> USE ProjectionAssumption
  <1> DEFINE t == worker[w].target
             new == Row("READY", 0, TRUE)
  <1>1. /\ ~At(w, "idle") /\ Leaves(w) /\ UNCHANGED <<stores, retried>>
        /\ row' = [row EXCEPT ![t] = new] /\ At(w, "counted")
    BY DEF Commit, At
  <1>2. new \in RowRecord /\ new.status = "READY"
    BY DEF Row, RowRecord
  <1> HIDE DEF new
  <1>3. /\ t \in Targets /\ Holds(w) /\ row[t].status = "RUNNING"
        /\ worker[w].all => OthersReady(t)
        /\ applied[t] = 1..Batches[t]
    <2>1. t \in Targets /\ Wrote(w) /\ Locks(w)
      BY <1>1, UnderWay
    <2>2. Holds(w) /\ (worker[w].all => OthersReady(t))
      BY <1>1, <2>1 DEF Locks, At
    <2>3. worker[w].written = Batches[t] /\ 1..worker[w].written \subseteq applied[t]
      BY <1>1, <2>1 DEF Wrote, At
    <2>4. applied[t] \subseteq 1..Batches[t]
      BY <2>1 DEF ProjectionInv, CopiesOK
    <2> QED
      BY <2>1, <2>2, <2>3, <2>4 DEF Holds
  <1>4. release \in {"PROJECTING", "BLOCKED"}
    BY <1>3 DEF ProjectionInv, Typed, ReleaseOK
  <1>5. \A u \in Targets : row'[u] = IF u = t THEN new ELSE row[u]
    BY <1>1 DEF ProjectionInv, Typed
  <1>6. release' \in {"PROJECTING", "BLOCKED", "READY"}
    BY <1>4 DEF Commit
  <1>7. release' = "READY" => \A u \in Targets : row'[u].status = "READY"
    <2> SUFFICES ASSUME release' = "READY", NEW u \in Targets PROVE row'[u].status = "READY"
      OBVIOUS
    <2>1. release' = IF worker[w].all /\ release \in Unfinished THEN "READY" ELSE release
      BY DEF Commit
    <2>2. worker[w].all
      BY <1>4, <2>1
    <2>3. u # t => row[u].status = "READY"
      BY <1>3, <2>2 DEF OthersReady
    <2> QED
      BY <1>2, <1>5, <2>3
  <1> QED
    BY <1>1, <1>2, <1>3, <1>6, <1>7, HolderWrites

LEMMA FailStep ==
  ASSUME ProjectionInv, NEW w \in Workers, FailAndBlock(w) \/ FailCommits(w)
  PROVE  ProjectionInv'
  <1> USE ProjectionAssumption
  <1> DEFINE t == worker[w].target
             new == FailRow(w)
  <1>1. /\ ~At(w, "idle") /\ Leaves(w) /\ UNCHANGED <<stores, retried>>
        /\ row' = [row EXCEPT ![t] = new] /\ release' \in {release, "BLOCKED"}
    BY DEF FailAndBlock, FailCommits, At
  <1>2. Holds(w)
    BY <1>1, UnderWay DEF FailAndBlock, FailCommits, Locks, At
  <1>3. t \in Targets /\ row[t] \in RowRecord /\ row[t].status = "RUNNING"
        /\ worker[w].again \in BOOLEAN
    BY <1>1, <1>2, UnderWay DEF Holds, ProjectionInv, Typed, WorkerRecord
  <1>4. new \in RowRecord /\ new.status = "FAILED"
    BY <1>3 DEF FailRow, Row, RowRecord
  <1> HIDE DEF new
  <1>5. release \in {"PROJECTING", "BLOCKED"}
    BY <1>3 DEF ProjectionInv, Typed, ReleaseOK
  <1> QED
    BY <1>1, <1>2, <1>4, <1>5, HolderWrites

\* A lost lease, a failure that comes too late, a stop.
LEMMA GivesUpStep ==
  ASSUME ProjectionInv, NEW w \in Workers, LoseLease(w) \/ FailLost(w) \/ Crash(w)
  PROVE  ProjectionInv'
  BY LeavesStep DEF LoseLease, FailLost, Crash

LEMMA ProjectionStep == ProjectionInv /\ [Next]_vars => ProjectionInv'
  <1> SUFFICES ASSUME ProjectionInv, [Next]_vars PROVE ProjectionInv'
    OBVIOUS
  <1>1. CASE Start
    BY <1>1, StartStep
  <1>2. CASE Retry
    BY <1>2, RetryStep
  <1>3. ASSUME NEW t \in Targets, LeaseExpires(t) PROVE ProjectionInv'
    BY <1>3, LeaseExpiresStep
  <1>8. ASSUME NEW t \in Targets, NEW batch \in copy[t], Overwritten(t, batch) PROVE ProjectionInv'
    BY <1>8, OverwrittenStep
  <1>4. ASSUME NEW w \in Workers, Claims(w) PROVE ProjectionInv'
    BY <1>4, ClaimStep DEF Claims
  <1>5. ASSUME NEW w \in Workers, Handles(w) PROVE ProjectionInv'
    BY <1>5, CheckStep, WriteStep, CountStep, CommitStep, GivesUpStep, FailStep,
       FailSeesBlockedStep DEF Handles
  <1>6. ASSUME NEW w \in Workers, Faults(w) PROVE ProjectionInv'
    BY <1>6, CompleteErrsStep, GivesUpStep, RefusedStep DEF Faults
  <1>7. CASE UNCHANGED vars
    BY <1>7 DEF vars, ProjectionInv, Typed, WorkersOK, Wrote, Locks, Holds, OthersReady, At,
       CopiesOK, ReleaseOK
  <1> QED
    BY <1>1, <1>2, <1>3, <1>4, <1>5, <1>6, <1>7, <1>8 DEF Next

LEMMA ProjectionInit == Init => ProjectionInv
  <1> SUFFICES ASSUME Init PROVE ProjectionInv
    OBVIOUS
  <1> USE ProjectionAssumption
  <1>1. \A t \in Targets : row[t].status = "NONE" /\ row[t] \in RowRecord
    BY DEF Init, Row, RowRecord
  <1>2. \A w \in Workers : worker[w] \in WorkerRecord /\ worker[w].pc = "idle"
    BY IdleRecord DEF Init
  <1>3. Typed
    <2>1. row \in [Targets -> RowRecord]
      BY <1>1 DEF Init
    <2>2. worker \in [Workers -> WorkerRecord]
      BY <1>2 DEF Init
    <2>3. copy \in [Targets -> SUBSET Nat] /\ applied \in [Targets -> SUBSET Nat]
      BY DEF Init
    <2>4. retried \in 0..Retries /\ release = "DRAFT"
      BY DEF Init
    <2> QED
      BY <2>1, <2>2, <2>3, <2>4 DEF Typed
  <1>4. WorkersOK
    BY <1>2 DEF WorkersOK
  <1>5. CopiesOK
    <2>1. \A t \in Targets : copy[t] = {} /\ applied[t] = {} /\ row[t].status # "READY"
      BY <1>1 DEF Init
    <2> QED
      BY <2>1 DEF CopiesOK
  <1>6. ReleaseOK
    BY <1>1 DEF Init, ReleaseOK
  <1> QED
    BY <1>3, <1>4, <1>5, <1>6 DEF ProjectionInv

THEOREM ProjectionInvariant == Spec => []ProjectionInv
  BY ProjectionInit, ProjectionStep, PTL DEF Spec

-----------------------------------------------------------------------------
\* The variables of a projection stay in their types, and a claim names a
\* target, whatever claims, lost leases, failures and retries do to the rows.
THEOREM ProjectionTypeCorrect == Spec => []ProjectionTypeOK
  <1>1. ProjectionInv => ProjectionTypeOK
    BY DEF ProjectionInv, Typed, WorkersOK, Wrote, ProjectionTypeOK
  <1> QED
    BY <1>1, ProjectionInvariant, PTL

\* complete_release_projection makes a release READY only with all of its
\* projections READY and all of its batches projected to every target, and only a
\* target shared with other releases does not keep them.
THEOREM ReadyReleaseProjected == Spec => []ReadyReleaseIsProjected
  <1>1. ProjectionInv => ReadyReleaseIsProjected
    BY DEF ProjectionInv, CopiesOK, ReleaseOK, ReadyReleaseIsProjected
  <1> QED
    BY <1>1, ProjectionInvariant, PTL

\* The row a worker writes at the end of its claim is its own, RUNNING.
LEMMA OwnRowRuns ==
  ASSUME ProjectionInv, NEW w \in Workers, Commit(w) \/ FailAndBlock(w) \/ FailCommits(w)
  PROVE  row[worker[w].target].status = "RUNNING"
  BY UnderWay DEF Commit, FailAndBlock, FailCommits, Locks, Holds, At

LEMMA StepKeepsReady ==
  ASSUME ProjectionInv, [Next]_vars, NEW t \in Targets, row[t].status = "READY"
  PROVE  row'[t] = row[t]
  <1> USE DEF ProjectionInv, Typed
  <1>1. CASE Start
    BY <1>1 DEF Start, ReleaseOK
  <1>2. CASE Retry
    BY <1>2 DEF Retry, Reset, FailedRows
  <1>3. ASSUME NEW u \in Targets, LeaseExpires(u) PROVE row'[t] = row[t]
    BY <1>3 DEF LeaseExpires
  <1>4. ASSUME NEW w \in Workers, NEW u \in Targets, Claim(w, u) PROVE row'[t] = row[t]
    BY <1>4 DEF Claim, Claimable
  <1>5. ASSUME NEW w \in Workers, Handles(w) PROVE row'[t] = row[t]
    <2>1. CASE Commit(w) \/ FailAndBlock(w) \/ FailCommits(w)
      <3>1. worker[w].target # t
        BY <2>1, OwnRowRuns
      <3> QED
        BY <2>1, <3>1 DEF Commit, FailAndBlock, FailCommits
    <2> QED
      BY <1>5, <2>1 DEF Handles, Check, Write, Count, LoseLease, FailSeesBlocked, FailLost
  <1>6. ASSUME NEW w \in Workers, Faults(w) PROVE row'[t] = row[t]
    BY <1>6 DEF Faults, CompleteErrs, Crash, Refused
  <1>7. CASE UNCHANGED vars
    BY <1>7 DEF vars
  <1>8. ASSUME NEW u \in Targets, NEW batch \in copy[u], Overwritten(u, batch) PROVE row'[t] = row[t]
    BY <1>8 DEF Overwritten
  <1> QED
    BY <1>1, <1>2, <1>3, <1>4, <1>5, <1>6, <1>7, <1>8 DEF Next, Claims

\* Neither a worker that lost its lease, nor a claim, nor a retry takes a
\* READY projection back.
THEOREM FinishedWorkKept == Spec => FinishedWorkIsKept
  <1>1. ProjectionInv /\ [Next]_vars =>
          [\A t \in Targets : row[t].status = "READY" => row'[t] = row[t]]_vars
    BY StepKeepsReady
  <1> QED
    BY <1>1, ProjectionInvariant, PTL DEF Spec, FinishedWorkIsKept

=============================================================================
