------------------------- MODULE ReleaseProjection -------------------------
(***************************************************************************)
(* The projection of one semantic release: a release that passes its       *)
(* validation gets one projection row per target, workers claim the rows   *)
(* under a lease, copy the release's objects to the target and complete or *)
(* fail the row, and the release becomes READY with its last projection.   *)
(*                                                                         *)
(* The functions start_, claim_, complete_, fail_ and                      *)
(* retry_failed_release_projections are database transactions under READ   *)
(* COMMITTED.  A transaction is one action, except the two whose statement *)
(* reads rows another transaction may be changing: completing (Count, then *)
(* Commit) and failing while the release is BLOCKED (FailSeesBlocked, then *)
(* FailCommits).                                                           *)
(*                                                                         *)
(* A lease token is the worker that drew it: a worker handles one claim at *)
(* a time and a new claim draws a new token, so a row knows its holder     *)
(* exactly when the token of the holder's present claim is the row's.      *)
(* Graph vertices and edges and search documents are named by the object   *)
(* versions they stand for and carry one release each, so the projection   *)
(* of another release with the same versions takes them over               *)
(* (Overwritten).                                                          *)
(* Time is a lease's expiry and nothing else: the pause before a FAILED    *)
(* row may be claimed again is over at any moment, and a renewed lease is  *)
(* the lease it renewed.                                                   *)
(***************************************************************************)
EXTENDS Naturals, FiniteSets

CONSTANTS Targets,       \* the stores a release is projected to
          Graph,         \* those written batch by batch by the graph projector
          Shared,        \* those that do not keep a copy for each release
          Batches,       \* batches of a target, one for a runtime target
          Workers,       \* worker loops of all processes
          Serves,        \* the targets a worker loop claims
          MaxAttempts,   \* max_attempts of a projection row
          Retries,       \* bound on operator retries explored
          NoOne

ASSUME ProjectionAssumption ==
  /\ IsFiniteSet(Targets) /\ Targets # {} /\ Graph \subseteq Targets /\ Shared \subseteq Targets
  /\ Batches \in [Targets -> Nat \ {0}]
  /\ \A t \in Targets \ Graph : Batches[t] = 1
  /\ Serves \in [Workers -> SUBSET Targets]
  /\ MaxAttempts \in Nat \ {0} /\ Retries \in Nat
  /\ NoOne \notin Workers /\ NoOne \notin Targets

VARIABLES release,       \* releases.status, up to READY
          row,           \* release_projections, one row per target
          copy,          \* batches of each target that carry this release
          applied,       \* history: the batches projected to each target
          worker,        \* what each worker loop is doing
          retried        \* operator retries so far

stores == <<copy, applied>>
vars == <<release, row, stores, worker, retried>>

Unfinished == {"PROJECTING", "BLOCKED"}

RowRecord ==
  [status : {"NONE", "PENDING", "RUNNING", "READY", "FAILED"},
   attempt : 0..MaxAttempts,
   holder : Workers \cup {NoOne},     \* lease_owner with its lease_token
   expired : BOOLEAN,                 \* lease_expires_at <= now()
   again : BOOLEAN]                   \* next_attempt_at is not 'infinity'

WorkerRecord ==
  [pc : {"idle", "check", "write", "complete", "counted", "failing", "blocked"},
   target : Targets \cup {NoOne},
   written : Nat,                     \* batches written under this claim
   all : BOOLEAN,                     \* all_ready as the completion counted it
   again : BOOLEAN]                   \* the failure is retryable

Row(status, attempt, again) ==
  [status |-> status, attempt |-> attempt, holder |-> NoOne,
   expired |-> FALSE, again |-> again]

Idle == [pc |-> "idle", target |-> NoOne, written |-> 0, all |-> FALSE, again |-> FALSE]

At(w, pc) == worker[w].pc = pc

\* The row of the worker's claim is still RUNNING under its token.
Holds(w) == /\ row[worker[w].target].status = "RUNNING"
            /\ row[worker[w].target].holder = w

\* The lease is current and the release is still being projected.
Leased(w) == /\ Holds(w)
             /\ ~row[worker[w].target].expired
             /\ release \in Unfinished

\* A transaction that has updated the row and not committed holds its lock.
Locked(t) == \E w \in Workers : worker[w].target = t /\ worker[w].pc \in {"counted", "blocked"}

\* (A FAILED row is never claimed again by itself.)
PendingOnly(t) ==
  /\ release \in Unfinished /\ row[t].attempt < MaxAttempts /\ ~Locked(t)
  /\ row[t].status = "PENDING" \/ (row[t].status = "RUNNING" /\ row[t].expired)

\* (Attempts without a bound.)
ClaimableForEver(t) ==
  /\ release \in Unfinished /\ ~Locked(t)
  /\ row[t].status \in {"PENDING", "FAILED"} \/ (row[t].status = "RUNNING" /\ row[t].expired)

Claimable(t) ==
  /\ release \in Unfinished
  /\ row[t].attempt < MaxAttempts
  /\ \/ row[t].status = "PENDING"
     \/ row[t].status = "FAILED" /\ row[t].again
     \/ row[t].status = "RUNNING" /\ row[t].expired
  /\ ~Locked(t)

Init ==
  /\ release = "DRAFT"
  /\ row = [t \in Targets |-> Row("NONE", 0, TRUE)]
  /\ copy = [t \in Targets |-> {}]
  /\ applied = [t \in Targets |-> {}]
  /\ worker = [w \in Workers |-> Idle]
  /\ retried = 0

----------------------------------------------------------------------------
(* The release.                                                            *)

\* ValidateAndStartProjection: the release and its rows change together; a
\* release whose manifest does not match stays DRAFT, the call is undone.
Start ==
  /\ release = "DRAFT"
  /\ release' = "PROJECTING"
  /\ row' = [t \in Targets |-> Row("PENDING", 0, TRUE)]
  /\ UNCHANGED <<stores, worker, retried>>

FailedRows == {t \in Targets : row[t].status = "FAILED"}

\* What retry_failed_release_projections asks before it changes anything.
RetryAccepted == release = "BLOCKED" /\ FailedRows # {}

\* (Every row of the release is reset.)
ResetAll(t) == Row("PENDING", 0, TRUE)

Reset(t) == IF t \in FailedRows THEN Row("PENDING", 0, TRUE) ELSE row[t]

Retry ==
  /\ RetryAccepted
  /\ retried < Retries
  /\ retried' = retried + 1
  /\ row' = [t \in Targets |-> Reset(t)]
  /\ release' = "PROJECTING"
  /\ UNCHANGED <<stores, worker>>

LeaseExpires(t) ==
  /\ row[t].status = "RUNNING" /\ ~row[t].expired
  /\ row' = [row EXCEPT ![t].expired = TRUE]
  /\ UNCHANGED <<release, stores, worker, retried>>

\* The projection of another release, to a target that both share.
Overwritten(t, batch) ==
  /\ t \in Shared /\ batch \in copy[t]
  /\ copy' = [copy EXCEPT ![t] = @ \ {batch}]
  /\ UNCHANGED <<release, row, applied, worker, retried>>

----------------------------------------------------------------------------
(* A worker.                                                               *)

Becomes(w, pc) == worker' = [worker EXCEPT ![w].pc = pc]

Leaves(w) == worker' = [worker EXCEPT ![w] = Idle]

\* FOR UPDATE SKIP LOCKED: a row under another transaction is passed over.
Claim(w, t) ==
  /\ At(w, "idle") /\ t \in Serves[w] /\ Claimable(t)
  /\ row' = [row EXCEPT ![t] =
       [status |-> "RUNNING", attempt |-> row[t].attempt + 1, holder |-> w,
        expired |-> FALSE, again |-> row[t].again]]
  /\ worker' = [worker EXCEPT ![w] = [Idle EXCEPT !.pc = "check", !.target = t]]
  /\ UNCHANGED <<release, stores, retried>>

\* The runtime projector asks for the lease once, the graph projector renews
\* it before the first batch and after every batch.  Nothing holds the row
\* between the question and the writing.
Check(w) ==
  /\ At(w, "check")
  /\ IF ~Leased(w) THEN Leaves(w)
     ELSE Becomes(w, IF worker[w].written < Batches[worker[w].target]
                     THEN "write" ELSE "complete")
  /\ UNCHANGED <<release, row, stores, retried>>

\* A runtime target is rewritten whole in one transaction; a batch of the
\* graph is an upsert of its vertices or edges.
Write(w) ==
  /\ At(w, "write")
  /\ LET t == worker[w].target
         batch == worker[w].written + 1
     IN /\ copy' = [copy EXCEPT ![t] = @ \cup {batch}]
        /\ applied' = [applied EXCEPT ![t] = @ \cup {batch}]
        /\ worker' = [worker EXCEPT ![w].written = batch,
                                    ![w].pc = IF t \in Graph THEN "check" ELSE "complete"]
  /\ UNCHANGED <<release, row, retried>>

\* The projection is refused: by the target (retryable) or by the contract of
\* the release's objects (not).
Refused(w, again) ==
  /\ worker[w].pc \in {"check", "write"}
  /\ worker' = [worker EXCEPT ![w].pc = "failing", ![w].again = again]
  /\ UNCHANGED <<release, row, stores, retried>>

\* (Nothing has failed.)
NoneFailed(t) == \A u \in Targets \ {t} : row[u].status # "FAILED"

\* complete_release_projection marks its own row under the live lease and
\* counts the rows of the release: the others' as they were last committed.
OthersReady(t) == \A u \in Targets \ {t} : row[u].status = "READY"

Count(w) ==
  /\ At(w, "complete") /\ Holds(w) /\ ~row[worker[w].target].expired
  /\ worker' = [worker EXCEPT ![w].pc = "counted",
                              ![w].all = OthersReady(worker[w].target)]
  /\ UNCHANGED <<release, row, stores, retried>>

Commit(w) ==
  /\ At(w, "counted")
  /\ row' = [row EXCEPT ![worker[w].target] = Row("READY", 0, TRUE)]
  /\ release' = IF worker[w].all /\ release \in Unfinished THEN "READY" ELSE release
  /\ Leaves(w)
  /\ UNCHANGED <<stores, retried>>

\* Complete returns false: the lease is lost and nothing was written.
LoseLease(w) ==
  /\ At(w, "complete") /\ ~(Holds(w) /\ ~row[worker[w].target].expired)
  /\ Leaves(w)
  /\ UNCHANGED <<release, row, stores, retried>>

\* Complete fails and is undone.  The runtime projector then fails the row as
\* retryable, the graph projector leaves it to the lease.
CompleteErrs(w) ==
  /\ worker[w].pc \in {"complete", "counted"}
  /\ IF worker[w].target \in Graph THEN Leaves(w)
     ELSE worker' = [worker EXCEPT ![w].pc = "failing", ![w].all = FALSE, ![w].again = TRUE]
  /\ UNCHANGED <<release, row, stores, retried>>

\* fail_release_projection asks for the token only: a lease that has expired
\* and that nobody claimed is still the worker's to fail.
FailRow(w) == Row("FAILED", row[worker[w].target].attempt, worker[w].again)

FailAndBlock(w) ==
  /\ At(w, "failing") /\ Holds(w) /\ release = "PROJECTING"
  /\ row' = [row EXCEPT ![worker[w].target] = FailRow(w)]
  /\ release' = "BLOCKED"
  /\ Leaves(w)
  /\ UNCHANGED <<stores, retried>>

\* UPDATE releases ... WHERE status='PROJECTING' meets a BLOCKED release,
\* updates nothing and does not wait for a retry that holds the release.
FailSeesBlocked(w) ==
  /\ At(w, "failing") /\ Holds(w) /\ release # "PROJECTING"
  /\ Becomes(w, "blocked")
  /\ UNCHANGED <<release, row, stores, retried>>

FailCommits(w) ==
  /\ At(w, "blocked")
  /\ row' = [row EXCEPT ![worker[w].target] = FailRow(w)]
  /\ Leaves(w)
  /\ UNCHANGED <<release, stores, retried>>

FailLost(w) ==
  /\ At(w, "failing") /\ ~Holds(w)
  /\ Leaves(w)
  /\ UNCHANGED <<release, row, stores, retried>>

\* The process stops, or the call that fails the row fails: an open
\* transaction is undone and the row keeps its lease.
Crash(w) ==
  /\ ~At(w, "idle")
  /\ Leaves(w)
  /\ UNCHANGED <<release, row, stores, retried>>

----------------------------------------------------------------------------
Handles(w) ==
  \/ Check(w) \/ Write(w) \/ Count(w) \/ Commit(w) \/ LoseLease(w)
  \/ FailAndBlock(w) \/ FailSeesBlocked(w) \/ FailCommits(w) \/ FailLost(w)

Claims(w) == \E t \in Targets : Claim(w, t)

Faults(w) == CompleteErrs(w) \/ Crash(w) \/ \E again \in BOOLEAN : Refused(w, again)

Next ==
  \/ Start \/ Retry
  \/ \E t \in Targets : LeaseExpires(t) \/ \E batch \in copy[t] : Overwritten(t, batch)
  \/ \E w \in Workers : Claims(w) \/ Handles(w) \/ Faults(w)

\* A worker loop polls and goes on with what it claimed, and time passes.  An
\* operator may never come, and a claim of one worker that serves a target is
\* a claim of that target.
Fairness ==
  /\ \A w \in Workers : WF_vars(Handles(w))
  /\ \A t \in Targets : WF_vars(\E w \in Workers : Claim(w, t)) /\ WF_vars(LeaseExpires(t))

Spec == Init /\ [][Next]_vars /\ Fairness

----------------------------------------------------------------------------
\* The variables stay in their types, and a claim names a target.
ProjectionTypeOK ==
  /\ release \in {"DRAFT", "PROJECTING", "BLOCKED", "READY"}
  /\ row \in [Targets -> RowRecord]
  /\ copy \in [Targets -> SUBSET Nat] /\ applied \in [Targets -> SUBSET Nat]
  /\ worker \in [Workers -> WorkerRecord]
  /\ \A w \in Workers : worker[w].pc # "idle" => worker[w].target \in Targets
  /\ retried \in 0..Retries

\* A release is READY only when each of its targets is (its row READY, each
\* batch of the release projected to it), whatever workers with lost leases,
\* failures and retries did in between; and only a target that another release
\* shares ever loses a batch again (complete_release_projection, Project, Apply).
ReadyReleaseIsProjected ==
  release = "READY" =>
    \A t \in Targets : /\ row[t].status = "READY" /\ applied[t] = 1..Batches[t]
                       /\ t \notin Shared => copy[t] = 1..Batches[t]

\* A projection that is READY stays so: neither a worker that lost its lease,
\* nor a claim, nor an operator's retry takes finished work back.
FinishedWorkIsKept ==
  [][\A t \in Targets : row[t].status = "READY" => row'[t] = row[t]]_vars

\* The row waits for an operator.
Spent(t) == row[t].status = "FAILED" /\ ~(row[t].again /\ row[t].attempt < MaxAttempts)

\* The ways a release can stop for good.  Two last completions each counted
\* the other's row as it was before;
Overlooked == release # "READY" /\ \A t \in Targets : row[t].status = "READY"
\* the worker of a row's last attempt died, and the row is neither claimed
\* again nor FAILED for a retry to reset;
Orphaned == \E t \in Targets : /\ row[t].status = "RUNNING" /\ row[t].expired
                               /\ row[t].attempt = MaxAttempts
\* a retry overtook a failure, which left its row FAILED under a release that
\* is not BLOCKED, the only status a retry accepts.
Overtaken == release = "PROJECTING" /\ \E t \in Targets : Spent(t)

\* A release under projection becomes READY or waits for an operator's retry,
\* unless it is stopped in one of the three ways above.
ProjectionSettles ==
  release \in Unfinished ~>
    \/ release = "READY"
    \/ RetryAccepted /\ \E t \in Targets : Spent(t)
    \/ Overlooked \/ Orphaned \/ Overtaken

============================================================================
