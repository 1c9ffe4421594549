-------------------------- MODULE ReportSchedules --------------------------
(***************************************************************************)
(* A schedule of a published report, the deliveries its occurrences make   *)
(* for its subscriptions, and the workers that evaluate them, retry them   *)
(* and pause the schedule when deliveries keep failing.                    *)
(*                                                                         *)
(* Every step is one transaction.  A pass of a worker first materializes   *)
(* what is due, with the clock the pass started with, then claims and      *)
(* evaluates deliveries one by one; a lease is measured from that clock,   *)
(* so it may run out under a working pass.                                 *)
(*                                                                         *)
(* Abstractions.  Time is the number of occurrences that have passed.      *)
(* Whether the version is available and the recipient may see the report   *)
(* may change at any time, so an evaluation may have any outcome.  The     *)
(* expected version of a change of state holds exactly when nothing        *)
(* changed since the caller looked.                                        *)
(***************************************************************************)
EXTENDS Naturals, FiniteSets

CONSTANTS Subscriptions,
          Workers,
          Last,          \* bound: occurrences looked at
          MissAfter,     \* miss_after_seconds, in occurrences
          MaxAttempts,   \* maxDeliveryAttempts
          Column,        \* the greatest attempt the table admits
          MaxFailures,   \* max_consecutive_failures
          None

ASSUME ScheduleAssumption ==
  /\ IsFiniteSet(Subscriptions) /\ Subscriptions # {} /\ None \notin Workers
  /\ {Last, MaxAttempts, MaxFailures} \subseteq Nat \ {0}
  /\ MissAfter \in Nat /\ Column \in Nat /\ Column >= MaxAttempts

VARIABLES now,         \* occurrences that have passed
          schedule,    \* report_schedules
          subscribed,  \* report_subscriptions in state ACTIVE
          delivery,    \* report_deliveries by subscription and scheduled_for
          job,         \* the delivery a worker has claimed
          listed       \* deliveries a lifecycle batch has listed and may close:
                       \* their updated_at is still the one the batch read

vars == <<now, schedule, subscribed, delivery, job, listed>>

Occurrences == 1..Last
Deliveries == Subscriptions \X Occurrences

ScheduleRecord == [state : {"ACTIVE", "PAUSED"}, next : 1..(Last + 1), failures : Nat]

DeliveryRecord ==
  [state : {"NONE", "PENDING", "RUNNING", "READY", "FAILED", "MISSED", "SKIPPED"},
   attempt : 0..Column,
   token : Workers \cup {None},
   due : BOOLEAN]              \* next_attempt_at or, RUNNING, lease_expires_at has passed

Row(state, attempt, token, due) ==
  [state |-> state, attempt |-> attempt, token |-> token, due |-> due]

Absent == Row("NONE", 0, None, FALSE)
InState(d, states) == delivery[d].state \in states

Init ==
  /\ now = 0
  /\ schedule = [state |-> "ACTIVE", next |-> 1, failures |-> 0]
  /\ subscribed \in SUBSET Subscriptions
  /\ delivery = [d \in Deliveries |-> Absent]
  /\ job = [w \in Workers |-> None]
  /\ listed = {}

----------------------------------------------------------------------------
(* The schedule and its subscriptions.                                     *)

\* INSERT ... SELECT of the ACTIVE subscriptions ON CONFLICT DO NOTHING.
Inserted(t, row) ==
  [d \in Deliveries |-> IF d[2] = t /\ d[1] \in subscribed /\ delivery[d] = Absent
                        THEN row ELSE delivery[d]]

\* materializeDue in a pass that started at time n.
Materialize(n) ==
  /\ schedule.state = "ACTIVE" /\ schedule.next <= n
  /\ LET missed == n - schedule.next > MissAfter
     IN delivery' = Inserted(schedule.next,
                      IF missed THEN Row("MISSED", 0, None, FALSE) ELSE Row("PENDING", 0, None, TRUE))
  /\ schedule' = [schedule EXCEPT !.next = @ + 1]
  /\ UNCHANGED <<now, subscribed, job, listed>>

\* Backfill of an occurrence that has passed, due or not.
Backfill(t) ==
  /\ t <= now
  /\ delivery' = Inserted(t, Row("PENDING", 0, None, TRUE))
  /\ UNCHANGED <<now, schedule, subscribed, job, listed>>

Pause ==
  /\ schedule' = [schedule EXCEPT !.state = "PAUSED"]
  /\ UNCHANGED <<now, subscribed, delivery, job, listed>>

\* Resuming counts from now on: occurrences that were due are passed over.
Resume ==
  /\ schedule' = [schedule EXCEPT !.state = "ACTIVE", !.next = now + 1]
  /\ UNCHANGED <<now, subscribed, delivery, job, listed>>

\* AddSubscription, which also brings a revoked one back.
Subscribe(s) ==
  /\ subscribed' = subscribed \cup {s}
  /\ UNCHANGED <<now, schedule, delivery, job, listed>>

\* RevokeSubscription, by its recipient or when the recipient leaves.
Revoke(s) ==
  /\ s \in subscribed
  /\ subscribed' = subscribed \ {s}
  /\ UNCHANGED <<now, schedule, delivery, job, listed>>

\* The recipient is to leave: a batch lists the deliveries not yet made.
PreviewDelivery(d) ==
  /\ InState(d, {"PENDING", "RUNNING", "FAILED"})
  /\ listed' = listed \cup {d}
  /\ UNCHANGED <<now, schedule, subscribed, delivery, job>>

Closed(d) == Row("SKIPPED", delivery[d].attempt, None, FALSE)

\* AutoClose of what was listed, in the batch or in a retry of it.  It compares
\* updated_at, and not the state.
CloseDelivery(d) ==
  /\ d \in listed
  /\ delivery' = [delivery EXCEPT ![d] = Closed(d)]
  /\ listed' = listed \ {d}
  /\ UNCHANGED <<now, schedule, subscribed, job>>

\* MarkDeliveryRead, of which only the new updated_at is kept.
MarkDeliveryRead(d) ==
  /\ InState(d, {"READY"})
  /\ listed' = listed \ {d}
  /\ UNCHANGED <<now, schedule, subscribed, delivery, job>>

----------------------------------------------------------------------------
(* Time.                                                                   *)

Tick ==
  /\ now < Last
  /\ now' = now + 1
  /\ UNCHANGED <<schedule, subscribed, delivery, job, listed>>

AttemptLeft(d) == delivery[d].attempt < MaxAttempts

\* The time of a retry, or the end of a lease, comes.
ComesDue(d) ==
  /\ ~delivery[d].due
  /\ InState(d, {"RUNNING"}) \/ (InState(d, {"FAILED"}) /\ AttemptLeft(d))
  /\ delivery' = [delivery EXCEPT ![d].due = TRUE]
  /\ UNCHANGED <<now, schedule, subscribed, job, listed>>

----------------------------------------------------------------------------
(* The workers.                                                            *)

\* (A worker that died keeps its delivery.)
NeverReclaimed(d) ==
  delivery[d].due /\ InState(d, {"PENDING", "FAILED"}) /\ AttemptLeft(d)

\* (No limit: what failed for good comes due like any other.)
WithoutLimit(d) ==
  InState(d, {"PENDING", "RUNNING", "FAILED"}) /\ (delivery[d].due \/ ~AttemptLeft(d))

\* An expired lease is taken whatever the attempt, ...
Claimable(d) ==
  /\ delivery[d].due
  /\ InState(d, {"RUNNING"}) \/ (InState(d, {"PENDING", "FAILED"}) /\ AttemptLeft(d))

\* (The column has no bound.)
AnyAttempt(d) == TRUE

\* ... until the column's CHECK refuses the next one and aborts the pass.
Admits(d) == delivery[d].attempt < Column

\* updated_at is the clock of the pass: a pass that claims what it has itself
\* materialized leaves it as it was.  (Which pass made a row is not kept.)
Claim(w, d) ==
  /\ job[w] = None /\ Claimable(d) /\ Admits(d)
  /\ delivery' = [delivery EXCEPT ![d] = Row("RUNNING", @.attempt + 1, w, FALSE)]
  /\ job' = [job EXCEPT ![w] = [id |-> d, attempt |-> delivery[d].attempt + 1]]
  /\ listed' = listed \ {d} \/ (InState(d, {"PENDING"}) /\ listed' = listed)
  /\ UNCHANGED <<now, schedule, subscribed>>

\* (The row is found by its identity alone.)
AnyClaim(w) == TRUE

\* The row still carries the token of the worker's claim.
Holds(w) == InState(job[w].id, {"RUNNING"}) /\ delivery[job[w].id].token = w

Final(w) == job[w].attempt >= MaxAttempts

Counted ==
  [schedule EXCEPT !.failures = @ + 1,
                   !.state = IF schedule.failures + 1 >= MaxFailures THEN "PAUSED" ELSE @]

Goes(w) == job' = [job EXCEPT ![w] = None]

\* finishDelivery with what evaluate found, at the clock of the claim.
Finish(w, outcome) ==
  /\ job[w] # None /\ Holds(w)
  /\ delivery' = [delivery EXCEPT ![job[w].id] = Row(outcome, @.attempt, None, FALSE)]
  /\ schedule' = CASE outcome = "READY" -> [schedule EXCEPT !.failures = 0]
                   [] outcome = "FAILED" /\ Final(w) -> Counted
                   [] OTHER -> schedule
  /\ Goes(w)
  /\ UNCHANGED <<now, subscribed, listed>>

\* ErrConflict, or a failed transaction, ends the pass; so does a crash.
Abandon(w) ==
  /\ job[w] # None
  /\ Goes(w)
  /\ UNCHANGED <<now, schedule, subscribed, delivery, listed>>

Work(w) == Abandon(w) \/ \E outcome \in {"READY", "SKIPPED", "FAILED"} : Finish(w, outcome)

Next ==
  \/ Tick \/ Pause \/ Resume
  \/ \E n \in 1..now : Materialize(n) \/ Backfill(n)
  \/ \E s \in Subscriptions : Subscribe(s) \/ Revoke(s)
  \/ \E d \in Deliveries : PreviewDelivery(d) \/ CloseDelivery(d) \/ MarkDeliveryRead(d)
  \/ \E d \in Deliveries : ComesDue(d) \/ \E w \in Workers : Claim(w, d)
  \/ \E w \in Workers : Work(w)

\* runReportScheduleWorker polls for ever, and time passes.
Fairness ==
  /\ WF_vars(\E w \in Workers, d \in Deliveries : Claim(w, d))
  /\ \A w \in Workers : WF_vars(Work(w))
  /\ \A d \in Deliveries : WF_vars(ComesDue(d))

Spec == Init /\ [][Next]_vars /\ Fairness

----------------------------------------------------------------------------
\* The variables stay in their types, and a delivery carries a token exactly
\* while it is RUNNING (the checks of report_deliveries).
ScheduleTypeOK ==
  /\ now \in 0..Last
  /\ schedule \in ScheduleRecord
  /\ subscribed \subseteq Subscriptions
  /\ delivery \in [Deliveries -> DeliveryRecord]
  /\ job \in [Workers -> {None} \cup [id : Deliveries, attempt : 1..Column]]
  /\ listed \subseteq Deliveries
  /\ \A d \in Deliveries : InState(d, {"RUNNING"}) <=> delivery[d].token # None

\* Every failure a schedule is paused for is a delivery of its own that used
\* up its attempts: a delivery is counted once, however many workers claimed
\* it, died over it or came back to it late (finishDelivery).
FailuresAreDeliveries ==
  schedule.failures <=
    Cardinality({d \in Deliveries : InState(d, {"FAILED", "SKIPPED"}) /\ ~AttemptLeft(d)})

Settled(d) ==
  InState(d, {"READY", "MISSED", "SKIPPED"}) \/ (InState(d, {"FAILED"}) /\ ~AttemptLeft(d))

\* What became of a delivery stands, against workers, retries and backfills: a
\* READY, SKIPPED or last FAILED one is changed by nothing but the closing of
\* a delivery listed before, and not written by another pass or by
\* its reader since; a MISSED one is never changed (claimDelivery,
\* finishDelivery, Backfill, AutoClose).
OutcomeStands ==
  [][\A d \in Deliveries :
       Settled(d) /\ delivery'[d] # delivery[d] =>
         d \in listed /\ ~InState(d, {"MISSED"}) /\ delivery'[d] = Closed(d)]_vars

\* A delivery whose lease has run out at the greatest attempt: no pass can
\* claim it, and as the first in order it ends each pass of its tenant.
Blocked == \E d \in Deliveries : Claimable(d) /\ ~Admits(d)

\* Every delivery asked for is made, skipped or given up, whichever workers
\* die over it and whether its schedule or subscription goes on, unless one
\* of the tenant's has used up the attempts of the column (ProcessTenant).
DeliverySettles ==
  \A d \in Deliveries : InState(d, {"PENDING"}) ~> Settled(d) \/ Blocked

=============================================================================
