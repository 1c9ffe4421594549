------------------------- MODULE ReportSchedules_proofs -------------------------
(***************************************************************************)
(* Proofs about ReportSchedules, for any number of subscriptions, workers, *)
(* occurrences and attempts.                                               *)
(***************************************************************************)
EXTENDS ReportSchedules, FiniteSetTheorems, TLAPS

\* A worker that still holds its delivery knows its attempt.
HolderKnowsAttempt ==
  \A w \in Workers : job[w] # None /\ Holds(w) => delivery[job[w].id].attempt = job[w].attempt

\* The deliveries that used up their attempts and were not made.
Lost == {d \in Deliveries : InState(d, {"FAILED", "SKIPPED"}) /\ ~AttemptLeft(d)}

FailuresCounted == schedule.failures <= Cardinality(Lost)

ScheduleInv == ScheduleTypeOK /\ HolderKnowsAttempt /\ FailuresCounted

\* A delivery that may still be closed has been asked for, and was not missed.
ListedWereOpen == \A d \in listed : ~InState(d, {"NONE", "MISSED"})

-----------------------------------------------------------------------------
(* Sets of deliveries.                                                     *)

LEMMA DeliveriesFinite == IsFiniteSet(Deliveries)
  <1>1. IsFiniteSet(Occurrences)
    BY ScheduleAssumption, FS_Interval DEF Occurrences
  <1> QED
    BY <1>1, ScheduleAssumption, FS_Product DEF Deliveries

\* No delivery lost is found again: the count of them does not fall, ...
LEMMA LostGrows ==
  ASSUME Lost \subseteq Lost'
  PROVE  Cardinality(Lost) <= Cardinality(Lost')
  <1>1. IsFiniteSet(Lost')
    BY DeliveriesFinite, FS_Subset DEF Lost
  <1> QED
    BY <1>1, FS_Subset

\* ... and a delivery lost now adds one to it.
LEMMA LostAdds ==
  ASSUME Lost \subseteq Lost', NEW d \in Lost', d \notin Lost
  PROVE  Cardinality(Lost) + 1 <= Cardinality(Lost')
  <1>1. IsFiniteSet(Lost) /\ IsFiniteSet(Lost')
    BY DeliveriesFinite, FS_Subset DEF Lost
  <1>2. Cardinality(Lost \cup {d}) = Cardinality(Lost) + 1
    BY <1>1, FS_AddElement
  <1>3. Cardinality(Lost \cup {d}) <= Cardinality(Lost')
    BY <1>1, FS_Subset
  <1> QED
    BY <1>2, <1>3

LEMMA LostCardinality == Cardinality(Lost) \in Nat
  <1>1. IsFiniteSet(Lost)
    BY DeliveriesFinite, FS_Subset DEF Lost
  <1> QED
    BY <1>1, FS_CardinalityType

\* As long as no delivery lost is found again and no failure is counted, the
\* count of failures is right.
LEMMA StillCounted ==
  ASSUME ScheduleInv, Lost \subseteq Lost', ScheduleTypeOK', schedule'.failures <= schedule.failures
  PROVE  FailuresCounted'
  <1>1. Cardinality(Lost) \in Nat /\ Cardinality(Lost') \in Nat
    <2>1. IsFiniteSet(Lost')
      BY DeliveriesFinite, FS_Subset DEF Lost
    <2> QED
      BY <2>1, LostCardinality, FS_CardinalityType
  <1>2. schedule.failures \in Nat /\ schedule'.failures \in Nat
    BY DEF ScheduleInv, ScheduleTypeOK, ScheduleRecord
  <1> QED
    BY <1>1, <1>2, LostGrows DEF ScheduleInv, FailuresCounted

-----------------------------------------------------------------------------
(* One lemma per kind of change of the deliveries.                         *)

\* What holds after a step that changes one delivery, and the job of the
\* worker it belongs to.
LEMMA RowChanges ==
  ASSUME ScheduleInv, NEW d \in Deliveries, NEW row \in DeliveryRecord,
         delivery' = [delivery EXCEPT ![d] = row],
         row.state = "RUNNING" <=> row.token # None,
         now' \in 0..Last, schedule' \in ScheduleRecord, subscribed' \subseteq Subscriptions,
         job' \in [Workers -> {None} \cup [id : Deliveries, attempt : 1..Column]],
         listed' \subseteq Deliveries
  PROVE  ScheduleTypeOK'
  <1>1. delivery' \in [Deliveries -> DeliveryRecord]
    BY DEF ScheduleInv, ScheduleTypeOK
  <1>2. \A e \in Deliveries : delivery'[e] = IF e = d THEN row ELSE delivery[e]
    BY DEF ScheduleInv, ScheduleTypeOK
  <1>3. \A e \in Deliveries : InState(e, {"RUNNING"})' <=> delivery'[e].token # None
    BY <1>2 DEF ScheduleInv, ScheduleTypeOK, InState
  <1> QED
    BY <1>1, <1>3 DEF ScheduleTypeOK

\* Rows inserted for an occurrence are PENDING or MISSED and were absent.
LEMMA InsertStep ==
  ASSUME ScheduleInv, NEW t \in Nat,
         NEW row \in {Row("MISSED", 0, None, FALSE), Row("PENDING", 0, None, TRUE)},
         delivery' = Inserted(t, row), UNCHANGED <<now, subscribed, job, listed>>,
         schedule' \in ScheduleRecord, schedule'.failures = schedule.failures
  PROVE  ScheduleInv'
  <1> USE ScheduleAssumption
  <1>1. row \in DeliveryRecord /\ row.state \in {"MISSED", "PENDING"} /\ row.token = None
    <2>1. CASE row = Row("MISSED", 0, None, FALSE)
      BY <2>1 DEF Row, DeliveryRecord
    <2>2. CASE row = Row("PENDING", 0, None, TRUE)
      BY <2>2 DEF Row, DeliveryRecord
    <2> QED
      BY <2>1, <2>2
  <1>2. \A d \in Deliveries :
          \/ delivery'[d] = delivery[d]
          \/ delivery'[d] = row /\ delivery[d].state = "NONE" /\ delivery[d].token = None
    <2> SUFFICES ASSUME NEW d \in Deliveries, delivery'[d] # delivery[d]
                 PROVE  /\ delivery'[d] = row
                        /\ delivery[d].state = "NONE" /\ delivery[d].token = None
      OBVIOUS
    <2>1. delivery'[d] = row /\ delivery[d] = Absent
      BY DEF Inserted
    <2> QED
      BY <2>1 DEF Absent, Row
  <1>3. ScheduleTypeOK'
    <2>1. \A d \in Deliveries : delivery'[d] \in DeliveryRecord
      BY <1>1, <1>2 DEF ScheduleInv, ScheduleTypeOK
    <2>2. delivery' \in [Deliveries -> DeliveryRecord]
      BY <2>1 DEF Inserted
    <2>3. \A d \in Deliveries : InState(d, {"RUNNING"})' <=> delivery'[d].token # None
      BY <1>1, <1>2 DEF ScheduleInv, ScheduleTypeOK, InState
    <2> QED
      BY <2>2, <2>3 DEF ScheduleInv, ScheduleTypeOK
  <1>4. HolderKnowsAttempt'
    <2> SUFFICES ASSUME NEW w \in Workers, job'[w] # None, Holds(w)'
                 PROVE  delivery'[job'[w].id].attempt = job'[w].attempt
      BY DEF HolderKnowsAttempt
    <2>1. job'[w] = job[w] /\ job[w].id \in Deliveries
      BY DEF ScheduleInv, ScheduleTypeOK
    <2>2. delivery'[job[w].id] = delivery[job[w].id]
      BY <1>1, <1>2, <2>1 DEF Holds, InState
    <2> QED
      BY <2>1, <2>2 DEF ScheduleInv, HolderKnowsAttempt, Holds, InState
  <1>5. Lost \subseteq Lost'
    BY <1>2 DEF Lost, InState, AttemptLeft
  <1>6. schedule'.failures <= schedule.failures
    BY DEF ScheduleInv, ScheduleTypeOK, ScheduleRecord
  <1> QED
    BY <1>3, <1>4, <1>5, <1>6, StillCounted DEF ScheduleInv

\* A worker's claim: a delivery with attempts left, or one that was RUNNING.
LEMMA ClaimStep ==
  ASSUME ScheduleInv, NEW w \in Workers, NEW d \in Deliveries, Claim(w, d)
  PROVE  ScheduleInv'
  <1> USE ScheduleAssumption
  <1> DEFINE next == delivery[d].attempt + 1
             row == Row("RUNNING", next, w, FALSE)
  <1>1. delivery[d].attempt \in 0..Column /\ next \in 1..Column
    BY DEF ScheduleInv, ScheduleTypeOK, DeliveryRecord, Claim, Admits
  <1>2. row \in DeliveryRecord /\ row.state = "RUNNING" /\ row.token = w /\ row.attempt = next
    BY <1>1 DEF Row, DeliveryRecord
  <1>3. delivery' = [delivery EXCEPT ![d] = row]
    BY DEF Claim
  <1>4. job' = [job EXCEPT ![w] = [id |-> d, attempt |-> next]]
    BY DEF Claim
  <1>5. UNCHANGED <<now, schedule, subscribed>>
    BY DEF Claim
  <1> HIDE DEF row, next
  <1>6. ScheduleTypeOK'
    <2>1. job' \in [Workers -> {None} \cup [id : Deliveries, attempt : 1..Column]]
      BY <1>1, <1>4 DEF ScheduleInv, ScheduleTypeOK
    <2>2. /\ now' \in 0..Last /\ schedule' \in ScheduleRecord /\ subscribed' \subseteq Subscriptions
          /\ (row.state = "RUNNING" <=> row.token # None) /\ listed' \subseteq Deliveries
      BY <1>2, <1>5 DEF ScheduleInv, ScheduleTypeOK, Claim
    <2> QED
      BY <1>2, <1>3, <2>1, <2>2, RowChanges
  <1>7. \A e \in Deliveries : delivery'[e] = IF e = d THEN row ELSE delivery[e]
    BY <1>3 DEF ScheduleInv, ScheduleTypeOK
  <1>8. HolderKnowsAttempt'
    <2> SUFFICES ASSUME NEW v \in Workers, job'[v] # None, Holds(v)'
                 PROVE  delivery'[job'[v].id].attempt = job'[v].attempt
      BY DEF HolderKnowsAttempt
    <2>1. CASE v = w
      <3>1. job'[v] = [id |-> d, attempt |-> next]
        BY <1>4, <2>1 DEF ScheduleInv, ScheduleTypeOK
      <3> QED
        BY <3>1, <1>2, <1>7
    <2>2. CASE v # w
      <3>1. job'[v] = job[v] /\ job[v].id \in Deliveries
        BY <1>4, <2>2 DEF ScheduleInv, ScheduleTypeOK
      <3>2. job[v].id # d
        BY <3>1, <2>2, <1>2, <1>7 DEF Holds
      <3>3. delivery'[job[v].id] = delivery[job[v].id]
        BY <3>1, <3>2, <1>7
      <3> QED
        BY <3>1, <3>3 DEF ScheduleInv, HolderKnowsAttempt, Holds, InState
    <2> QED
      BY <2>1, <2>2
  <1>9. Lost \subseteq Lost'
    <2>1. d \notin Lost
      BY DEF Lost, Claim, Claimable, InState
    <2> QED
      BY <2>1, <1>7 DEF Lost, InState, AttemptLeft
  <1>10. schedule'.failures <= schedule.failures
    BY <1>5 DEF ScheduleInv, ScheduleTypeOK, ScheduleRecord
  <1> QED
    BY <1>6, <1>8, <1>9, <1>10, StillCounted DEF ScheduleInv

\* A worker reports what it found, and counts a last failure.
LEMMA FinishStep ==
  ASSUME ScheduleInv, NEW w \in Workers, NEW outcome \in {"READY", "SKIPPED", "FAILED"},
         Finish(w, outcome)
  PROVE  ScheduleInv'
  <1> USE ScheduleAssumption
  <1> DEFINE d == job[w].id
             row == Row(outcome, delivery[d].attempt, None, FALSE)
  <1>1. /\ job[w] # None /\ Holds(w) /\ d \in Deliveries
        /\ delivery[d].attempt = job[w].attempt /\ delivery[d].attempt \in 0..Column
    BY DEF Finish, ScheduleInv, ScheduleTypeOK, HolderKnowsAttempt, DeliveryRecord
  <1>2. /\ row \in DeliveryRecord /\ row.state = outcome /\ row.token = None
        /\ row.attempt = delivery[d].attempt
    BY <1>1 DEF Row, DeliveryRecord
  <1>3. delivery' = [delivery EXCEPT ![d] = row]
    BY DEF Finish
  <1>4. job' = [job EXCEPT ![w] = None] /\ UNCHANGED <<now, subscribed, listed>>
    BY DEF Finish, Goes
  <1>5. /\ schedule' \in ScheduleRecord
        /\ \/ schedule'.failures <= schedule.failures
           \/ /\ schedule'.failures = schedule.failures + 1
              /\ outcome = "FAILED" /\ Final(w)
    <2>1. schedule \in ScheduleRecord
      BY DEF ScheduleInv, ScheduleTypeOK
    <2>2. CASE outcome = "READY"
      <3>1. schedule' = [schedule EXCEPT !.failures = 0]
        BY <2>2 DEF Finish
      <3> QED
        BY <2>1, <3>1 DEF ScheduleRecord
    <2>3. CASE outcome = "FAILED" /\ Final(w)
      <3>1. schedule' = Counted
        BY <2>3 DEF Finish
      <3>2. Counted \in ScheduleRecord /\ Counted.failures = schedule.failures + 1
        <4> DEFINE n == schedule.failures + 1
                   s == IF n >= MaxFailures THEN "PAUSED" ELSE schedule.state
        <4>1. n \in Nat /\ s \in {"ACTIVE", "PAUSED"}
          BY <2>1 DEF ScheduleRecord
        <4>2. Counted = [schedule EXCEPT !.failures = n, !.state = s]
          BY DEF Counted
        <4> HIDE DEF n, s
        <4>3. Counted \in ScheduleRecord /\ Counted.failures = n
          BY <2>1, <4>1, <4>2 DEF ScheduleRecord
        <4> QED
          BY <4>3 DEF n
      <3> QED
        BY <2>3, <3>1, <3>2
    <2>4. CASE outcome = "SKIPPED" \/ (outcome = "FAILED" /\ ~Final(w))
      <3>1. schedule' = schedule
        BY <2>4 DEF Finish
      <3> QED
        BY <2>1, <3>1 DEF ScheduleRecord
    <2> QED
      BY <2>2, <2>3, <2>4
  <1> HIDE DEF row
  <1>6. ScheduleTypeOK'
    <2>1. job' \in [Workers -> {None} \cup [id : Deliveries, attempt : 1..Column]]
      BY <1>4 DEF ScheduleInv, ScheduleTypeOK
    <2>2. /\ now' \in 0..Last /\ subscribed' \subseteq Subscriptions
          /\ (row.state = "RUNNING" <=> row.token # None) /\ listed' \subseteq Deliveries
      BY <1>2, <1>4 DEF ScheduleInv, ScheduleTypeOK
    <2> HIDE DEF d
    <2> QED
      BY <1>1, <1>2, <1>3, <1>5, <2>1, <2>2, RowChanges
  <1>7. \A e \in Deliveries : delivery'[e] = IF e = d THEN row ELSE delivery[e]
    BY <1>3 DEF ScheduleInv, ScheduleTypeOK
  <1>8. HolderKnowsAttempt'
    <2> SUFFICES ASSUME NEW v \in Workers, job'[v] # None, Holds(v)'
                 PROVE  delivery'[job'[v].id].attempt = job'[v].attempt
      BY DEF HolderKnowsAttempt
    <2>1. job'[v] = job[v] /\ job[v].id \in Deliveries
      BY <1>4 DEF ScheduleInv, ScheduleTypeOK
    <2>2. job[v].id # d
      BY <1>2, <1>7, <2>1 DEF Holds, InState
    <2>3. delivery'[job[v].id] = delivery[job[v].id]
      BY <1>7, <2>1, <2>2
    <2> QED
      BY <2>1, <2>3 DEF ScheduleInv, HolderKnowsAttempt, Holds, InState
  <1>9. d \notin Lost
    BY <1>1 DEF Lost, Holds, InState
  <1>10. Lost \subseteq Lost'
    BY <1>7, <1>9 DEF Lost, InState, AttemptLeft
  <1>11. CASE schedule'.failures <= schedule.failures
    BY <1>6, <1>8, <1>10, <1>11, StillCounted DEF ScheduleInv
  <1>12. CASE /\ schedule'.failures = schedule.failures + 1
              /\ outcome = "FAILED" /\ Final(w)
    <2>1. d \in Lost'
      BY <1>1, <1>2, <1>7, <1>12 DEF Lost, Final, InState, AttemptLeft
    <2>2. Cardinality(Lost) + 1 <= Cardinality(Lost')
      BY <1>9, <1>10, <2>1, LostAdds
    <2>3. /\ Cardinality(Lost) \in Nat /\ schedule.failures \in Nat
          /\ schedule.failures <= Cardinality(Lost)
      BY LostCardinality DEF ScheduleInv, ScheduleTypeOK, ScheduleRecord, FailuresCounted
    <2>4. Cardinality(Lost') \in Nat
      BY DeliveriesFinite, FS_Subset, FS_CardinalityType DEF Lost
    <2> QED
      BY <1>6, <1>8, <1>12, <2>2, <2>3, <2>4 DEF ScheduleInv, FailuresCounted
  <1> QED
    BY <1>5, <1>11, <1>12

\* The row of a delivery changes, and no worker's: it comes due, or is closed
\* when its recipient leaves.
LEMMA RowStep ==
  ASSUME ScheduleInv, NEW d \in Deliveries, CloseDelivery(d) \/ ComesDue(d)
  PROVE  ScheduleInv'
  <1> USE ScheduleAssumption
  <1>1. UNCHANGED <<now, schedule, subscribed, job>>
    BY DEF CloseDelivery, ComesDue
  <1>2. PICK row \in DeliveryRecord :
          /\ delivery' = [delivery EXCEPT ![d] = row]
          /\ row.attempt = delivery[d].attempt
          /\ \/ row.state = "SKIPPED" /\ row.token = None
             \/ row.state = delivery[d].state /\ row.token = delivery[d].token
    <2>1. delivery[d] \in DeliveryRecord
      BY DEF ScheduleInv, ScheduleTypeOK
    <2>2. CASE CloseDelivery(d)
      <3> DEFINE closed == Closed(d)
      <3>1. /\ closed \in DeliveryRecord /\ closed.state = "SKIPPED" /\ closed.token = None
            /\ closed.attempt = delivery[d].attempt
        BY <2>1 DEF Closed, Row, DeliveryRecord
      <3>2. delivery' = [delivery EXCEPT ![d] = closed]
        BY <2>2 DEF CloseDelivery
      <3> HIDE DEF closed
      <3> QED
        BY <3>1, <3>2
    <2>3. CASE ComesDue(d)
      <3> DEFINE dueRow == [delivery[d] EXCEPT !.due = TRUE]
      <3>1. /\ dueRow \in DeliveryRecord /\ dueRow.state = delivery[d].state
            /\ dueRow.token = delivery[d].token /\ dueRow.attempt = delivery[d].attempt
        BY <2>1 DEF DeliveryRecord
      <3>2. delivery' = [delivery EXCEPT ![d] = dueRow]
        BY <2>3 DEF ComesDue, ScheduleInv, ScheduleTypeOK
      <3> HIDE DEF dueRow
      <3> QED
        BY <3>1, <3>2
    <2> QED
      BY <2>2, <2>3
  <1>3. ScheduleTypeOK'
    <2>1. row.state = "RUNNING" <=> row.token # None
      BY <1>2 DEF ScheduleInv, ScheduleTypeOK, InState
    <2>2. /\ now' \in 0..Last /\ schedule' \in ScheduleRecord /\ subscribed' \subseteq Subscriptions
          /\ job' \in [Workers -> {None} \cup [id : Deliveries, attempt : 1..Column]]
          /\ listed' \subseteq Deliveries
      BY <1>1 DEF ScheduleInv, ScheduleTypeOK, CloseDelivery, ComesDue
    <2> QED
      BY <1>2, <2>1, <2>2, RowChanges
  <1>4. \A e \in Deliveries : delivery'[e] = IF e = d THEN row ELSE delivery[e]
    BY <1>2 DEF ScheduleInv, ScheduleTypeOK
  <1>5. HolderKnowsAttempt'
    <2> SUFFICES ASSUME NEW w \in Workers, job'[w] # None, Holds(w)'
                 PROVE  delivery'[job'[w].id].attempt = job'[w].attempt
      BY DEF HolderKnowsAttempt
    <2>1. job'[w] = job[w] /\ job[w].id \in Deliveries
      BY <1>1 DEF ScheduleInv, ScheduleTypeOK
    <2>2. Holds(w)
      BY <1>2, <1>4, <2>1 DEF Holds, InState
    <2> QED
      BY <1>2, <1>4, <2>1, <2>2 DEF ScheduleInv, HolderKnowsAttempt
  <1>6. Lost \subseteq Lost'
    BY <1>2, <1>4 DEF Lost, InState, AttemptLeft
  <1>7. schedule'.failures <= schedule.failures
    BY <1>1 DEF ScheduleInv, ScheduleTypeOK, ScheduleRecord
  <1> QED
    BY <1>3, <1>5, <1>6, <1>7, StillCounted DEF ScheduleInv

\* What leaves the deliveries alone, and does not count failures either.
LEMMA OtherStep ==
  ASSUME ScheduleInv, UNCHANGED delivery, listed' \subseteq Deliveries,
         now' \in 0..Last, subscribed' \subseteq Subscriptions,
         schedule' \in ScheduleRecord, schedule'.failures = schedule.failures,
         \/ UNCHANGED job
         \/ \E w \in Workers : job' = [job EXCEPT ![w] = None]
  PROVE  ScheduleInv'
  <1>1. ScheduleTypeOK'
    BY DEF ScheduleInv, ScheduleTypeOK, InState
  <1>2. \A w \in Workers : job'[w] \in {None, job[w]}
    BY DEF ScheduleInv, ScheduleTypeOK
  <1>3. HolderKnowsAttempt'
    BY <1>2 DEF ScheduleInv, HolderKnowsAttempt, Holds, InState
  <1>4. Lost' = Lost
    BY DEF Lost, InState, AttemptLeft
  <1>5. schedule'.failures <= schedule.failures
    BY DEF ScheduleInv, ScheduleTypeOK, ScheduleRecord
  <1> QED
    BY <1>1, <1>3, <1>4, <1>5, StillCounted DEF ScheduleInv

LEMMA ScheduleStep == ScheduleInv /\ [Next]_vars => ScheduleInv'
  <1> SUFFICES ASSUME ScheduleInv, [Next]_vars PROVE ScheduleInv'
    OBVIOUS
  <1> USE ScheduleAssumption
  <1>0. /\ now \in 0..Last /\ schedule \in ScheduleRecord /\ subscribed \subseteq Subscriptions
        /\ listed \subseteq Deliveries
    BY DEF ScheduleInv, ScheduleTypeOK
  <1>1. CASE Tick
    BY <1>0, <1>1, OtherStep DEF Tick
  <1>2. CASE Pause
    <2>1. schedule' \in ScheduleRecord /\ schedule'.failures = schedule.failures
      BY <1>0, <1>2 DEF Pause, ScheduleRecord
    <2> QED
      BY <1>0, <1>2, <2>1, OtherStep DEF Pause
  <1>3. CASE Resume
    <2>1. now + 1 \in 1..(Last + 1)
      BY <1>0
    <2>2. schedule' \in ScheduleRecord /\ schedule'.failures = schedule.failures
      BY <1>0, <1>3, <2>1 DEF Resume, ScheduleRecord
    <2> QED
      BY <1>0, <1>3, <2>2, OtherStep DEF Resume
  <1>4. ASSUME NEW n \in 1..now, Materialize(n) PROVE ScheduleInv'
    <2>1. schedule.next \in Nat /\ schedule.next + 1 \in 1..(Last + 1)
      BY <1>0, <1>4 DEF Materialize, ScheduleRecord
    <2>2. schedule' \in ScheduleRecord /\ schedule'.failures = schedule.failures
      BY <1>0, <1>4, <2>1 DEF Materialize, ScheduleRecord
    <2>3. PICK row \in {Row("MISSED", 0, None, FALSE), Row("PENDING", 0, None, TRUE)} :
            delivery' = Inserted(schedule.next, row)
      BY <1>4 DEF Materialize
    <2>4. UNCHANGED <<now, subscribed, job, listed>>
      BY <1>4 DEF Materialize
    <2> QED
      BY <2>1, <2>2, <2>3, <2>4, InsertStep
  <1>5. ASSUME NEW n \in 1..now, Backfill(n) PROVE ScheduleInv'
    <2>1. /\ delivery' = Inserted(n, Row("PENDING", 0, None, TRUE))
          /\ UNCHANGED <<now, schedule, subscribed, job, listed>>
      BY <1>5 DEF Backfill
    <2>2. n \in Nat
      BY <1>0
    <2> QED
      BY <1>0, <2>1, <2>2, InsertStep
  <1>6. ASSUME NEW s \in Subscriptions, Subscribe(s) \/ Revoke(s) PROVE ScheduleInv'
    BY <1>0, <1>6, OtherStep DEF Subscribe, Revoke
  <1>7. ASSUME NEW d \in Deliveries, CloseDelivery(d) \/ ComesDue(d) PROVE ScheduleInv'
    BY <1>7, RowStep
  <1>11. ASSUME NEW d \in Deliveries, PreviewDelivery(d) \/ MarkDeliveryRead(d) PROVE ScheduleInv'
    BY <1>0, <1>11, OtherStep DEF PreviewDelivery, MarkDeliveryRead
  <1>8. ASSUME NEW d \in Deliveries, NEW w \in Workers, Claim(w, d) PROVE ScheduleInv'
    BY <1>8, ClaimStep
  <1>9. ASSUME NEW w \in Workers, Work(w) PROVE ScheduleInv'
    <2>1. CASE Abandon(w)
      BY <1>0, <2>1, OtherStep DEF Abandon, Goes
    <2> QED
      BY <1>9, <2>1, FinishStep DEF Work
  <1>10. CASE UNCHANGED vars
    BY <1>0, <1>10, OtherStep DEF vars
  <1> QED
    BY <1>1, <1>2, <1>3, <1>4, <1>5, <1>6, <1>7, <1>8, <1>9, <1>10, <1>11 DEF Next

LEMMA ScheduleInit == Init => ScheduleInv
  <1> SUFFICES ASSUME Init PROVE ScheduleInv
    OBVIOUS
  <1> USE ScheduleAssumption
  <1>1. Absent \in DeliveryRecord /\ Absent.state = "NONE" /\ Absent.token = None
    BY DEF Absent, Row, DeliveryRecord
  <1>2. schedule \in ScheduleRecord /\ schedule.failures = 0
    BY DEF Init, ScheduleRecord
  <1>3. ScheduleTypeOK
    BY <1>1, <1>2 DEF Init, ScheduleTypeOK, InState
  <1>4. HolderKnowsAttempt
    BY DEF Init, HolderKnowsAttempt
  <1>5. FailuresCounted
    BY <1>2, LostCardinality DEF FailuresCounted
  <1> QED
    BY <1>3, <1>4, <1>5 DEF ScheduleInv

\* What is listed was open, and an insertion finds no row where one is listed.
LEMMA ListedStep == ScheduleInv /\ ListedWereOpen /\ [Next]_vars => ListedWereOpen'
  <1> SUFFICES ASSUME ScheduleInv, ListedWereOpen, [Next]_vars, NEW d \in listed'
               PROVE  ~InState(d, {"NONE", "MISSED"})'
    BY DEF ListedWereOpen
  <1> USE DEF InState, Row
  <1>0. delivery \in [Deliveries -> DeliveryRecord] /\ listed \subseteq Deliveries
    BY DEF ScheduleInv, ScheduleTypeOK
  <1>1. CASE UNCHANGED delivery /\ listed' \subseteq listed
    BY <1>1 DEF ListedWereOpen
  <1>2. ASSUME NEW t, NEW row, delivery' = Inserted(t, row), UNCHANGED listed
        PROVE  ~InState(d, {"NONE", "MISSED"})'
    <2>1. delivery[d] # Absent
      BY <1>2 DEF ListedWereOpen, Absent
    <2>2. delivery'[d] = delivery[d]
      BY <1>0, <1>2, <2>1 DEF Inserted
    <2> QED
      BY <1>2, <2>2 DEF ListedWereOpen
  <1>3. CASE Tick \/ Pause \/ Resume \/ (\E s \in Subscriptions : Subscribe(s) \/ Revoke(s))
    BY <1>1, <1>3 DEF Tick, Pause, Resume, Subscribe, Revoke
  <1>4. ASSUME NEW n \in 1..now, Materialize(n) \/ Backfill(n) PROVE ~InState(d, {"NONE", "MISSED"})'
    BY <1>2, <1>4 DEF Materialize, Backfill
  <1>5. ASSUME NEW e \in Deliveries, PreviewDelivery(e) PROVE ~InState(d, {"NONE", "MISSED"})'
    BY <1>5 DEF PreviewDelivery, ListedWereOpen
  <1>6. ASSUME NEW e \in Deliveries, CloseDelivery(e) \/ MarkDeliveryRead(e) PROVE ~InState(d, {"NONE", "MISSED"})'
    BY <1>0, <1>6 DEF CloseDelivery, MarkDeliveryRead, ListedWereOpen
  <1>7. ASSUME NEW e \in Deliveries, ComesDue(e) PROVE ~InState(d, {"NONE", "MISSED"})'
    BY <1>0, <1>7 DEF ComesDue, ListedWereOpen
  <1>8. ASSUME NEW w \in Workers, NEW e \in Deliveries, Claim(w, e) PROVE ~InState(d, {"NONE", "MISSED"})'
    BY <1>0, <1>8 DEF Claim, ListedWereOpen
  <1>9. ASSUME NEW w \in Workers, NEW outcome \in {"READY", "SKIPPED", "FAILED"}, Finish(w, outcome)
        PROVE  ~InState(d, {"NONE", "MISSED"})'
    BY <1>0, <1>9 DEF Finish, ListedWereOpen
  <1>10. ASSUME NEW w \in Workers, Abandon(w) PROVE ~InState(d, {"NONE", "MISSED"})'
    BY <1>1, <1>10 DEF Abandon
  <1> QED
    BY <1>1, <1>3, <1>4, <1>5, <1>6, <1>7, <1>8, <1>9, <1>10 DEF Next, Work, vars

LEMMA ListedInit == Init => ListedWereOpen
  BY DEF Init, ListedWereOpen

LEMMA ScheduleInvariant == Spec => []ScheduleInv
  BY ScheduleInit, ScheduleStep, PTL DEF Spec

\* Every reachable state of schedule, deliveries and workers is typed; a token
\* marks the RUNNING deliveries (report_deliveries).
THEOREM ScheduleTypeCorrect == Spec => []ScheduleTypeOK
  <1>1. ScheduleInv => ScheduleTypeOK
    BY DEF ScheduleInv
  <1> QED
    BY <1>1, ScheduleInvariant, PTL

\* Every counted failure is a delivery of its own that used up its attempts
\* (finishDelivery).
THEOREM FailuresCountDeliveries == Spec => []FailuresAreDeliveries
  <1>1. ScheduleInv => FailuresAreDeliveries
    BY DEF ScheduleInv, FailuresCounted, Lost, FailuresAreDeliveries
  <1> QED
    BY <1>1, ScheduleInvariant, PTL

-----------------------------------------------------------------------------
(* Outcomes.                                                               *)

\* What OutcomeStands says of one delivery and one step.
Stands(d) ==
  Settled(d) /\ delivery'[d] # delivery[d] =>
    d \in listed /\ ~InState(d, {"MISSED"}) /\ delivery'[d] = Closed(d)

\* No step makes a delivery anew that has an outcome.
LEMMA StepLeavesOutcomes ==
  ASSUME ScheduleInv, ListedWereOpen, Next, NEW d \in Deliveries
  PROVE  Stands(d)
  <1> USE DEF Stands, Settled, InState
  <1>0. delivery \in [Deliveries -> DeliveryRecord]
    BY DEF ScheduleInv, ScheduleTypeOK
  <1>1. CASE UNCHANGED delivery
    BY <1>1
  <1>2. ASSUME NEW t, NEW row, delivery' = Inserted(t, row) PROVE Stands(d)
    <2>1. delivery'[d] = delivery[d] \/ delivery[d] = Absent
      BY <1>2 DEF Inserted
    <2> QED
      BY <2>1 DEF Absent, Row
  <1>3. ASSUME NEW e \in Deliveries, CloseDelivery(e) PROVE Stands(d)
    BY <1>0, <1>3 DEF CloseDelivery, ListedWereOpen
  <1>4. ASSUME NEW e \in Deliveries, ComesDue(e) PROVE Stands(d)
    BY <1>0, <1>4 DEF ComesDue
  <1>5. ASSUME NEW e \in Deliveries, NEW w \in Workers, Claim(w, e) PROVE Stands(d)
    BY <1>0, <1>5 DEF Claim, Claimable
  <1>6. ASSUME NEW w \in Workers, NEW outcome, Finish(w, outcome) PROVE Stands(d)
    BY <1>0, <1>6 DEF Finish, Holds
  <1>7. ASSUME NEW n, Materialize(n) PROVE Stands(d)
    BY <1>2, <1>7 DEF Materialize
  <1>8. ASSUME NEW n, Backfill(n) PROVE Stands(d)
    BY <1>2, <1>8 DEF Backfill
  <1>9. CASE Tick \/ Pause \/ Resume \/ \E s \in Subscriptions : Subscribe(s) \/ Revoke(s)
    BY <1>1, <1>9 DEF Tick, Pause, Resume, Subscribe, Revoke
  <1>10. ASSUME NEW w \in Workers, Work(w) PROVE Stands(d)
    BY <1>1, <1>6, <1>10 DEF Work, Abandon
  <1>11. ASSUME NEW e \in Deliveries, PreviewDelivery(e) \/ MarkDeliveryRead(e) PROVE Stands(d)
    BY <1>1, <1>11 DEF PreviewDelivery, MarkDeliveryRead
  <1> QED
    BY <1>3, <1>4, <1>5, <1>7, <1>8, <1>9, <1>10, <1>11 DEF Next

\* What became of a delivery is changed by nothing but the closing of one that
\* was listed before and not written by another pass since (claimDelivery,
\* finishDelivery, Backfill, AutoClose).
THEOREM OutcomesStand == Spec => OutcomeStands
  <1>1. /\ Init => ScheduleInv /\ ListedWereOpen
        /\ ScheduleInv /\ ListedWereOpen /\ [Next]_vars => (ScheduleInv /\ ListedWereOpen)'
    BY ScheduleInit, ScheduleStep, ListedInit, ListedStep
  <1>2. ScheduleInv /\ ListedWereOpen /\ [Next]_vars =>
          [\A d \in Deliveries :
             Settled(d) /\ delivery'[d] # delivery[d] =>
               d \in listed /\ ~InState(d, {"MISSED"}) /\ delivery'[d] = Closed(d)]_vars
    BY StepLeavesOutcomes DEF Stands
  <1> QED
    BY <1>1, <1>2, PTL DEF Spec, OutcomeStands
=============================================================================
