------------------------ MODULE ReleaseLifecycle_proofs ------------------------
(***************************************************************************)
(* Proofs about ReleaseLifecycle, for any number of releases, questions    *)
(* and conversations.                                                      *)
(***************************************************************************)
EXTENDS ReleaseLifecycle, TLAPS

Statuses == {"READY", "ACTIVE", "SUPERSEDED", "RETAINED", "RETIRED"}

\* The type of what operations on releases change.
ReleasesTyped ==
  /\ status \in [Releases -> Statuses]
  /\ active \in Releases \cup {None}
  /\ rollout \in RolloutRecord
  /\ samples \subseteq Releases /\ referenced \subseteq Releases

\* An open rollout is one of releases of the domain.
RolloutIsOfReleases == Open => rollout.candidate \in Releases /\ rollout.control \in Releases

ReleasesSound ==
  /\ ReleasesTyped /\ RolloutIsOfReleases
  /\ ServedReleaseIsCompared /\ ReferencedReleaseIsKept

\* The type of what questions change.
QuestionsTyped ==
  /\ pin \in [Conversations -> Releases \cup {None}]
  /\ question \in [Questions -> QuestionRecord]
  /\ \A q \in Questions :
       ~At(q, "idle") => question[q].conversation # None /\ question[q].scope # None

\* A question moves on without its owner's word only if its conversation's
\* old release is retired, and for good.
RebindIsOfRetired ==
  \A q \in Questions :
    /\ At(q, "rebind") => question[q].previous \in Releases /\ status[question[q].previous] = "RETIRED"
    /\ At(q, "drifted") => question[q].previous \in Releases

LifecycleInv == ReleasesSound /\ QuestionsTyped /\ RebindIsOfRetired

\* A retired release stays retired.
RetiredForGood == \A r \in Releases : status[r] = "RETIRED" => status'[r] = "RETIRED"

-----------------------------------------------------------------------------
(* Releases.                                                               *)

LEMMA ReleasesInit == Init => ReleasesSound
  <1> SUFFICES ASSUME Init PROVE ReleasesSound
    OBVIOUS
  <1> USE LifecycleAssumption
  <1>1. rollout \in RolloutRecord /\ ~Open
    BY DEF Init, RolloutRecord, OpenStates, Stages, Percent, Open
  <1>2. CASE status = [r \in Releases |-> "READY"] /\ active = None /\ referenced = {}
    BY <1>1, <1>2 DEF Init, ReleasesSound, ReleasesTyped, Statuses, RolloutIsOfReleases,
         ServedReleaseIsCompared, ReferencedReleaseIsKept
  <1>3. ASSUME NEW old \in Releases, NEW live \in Releases, old # live, active = live,
               referenced = {},
               status = [r \in Releases |-> CASE r = old -> "SUPERSEDED" [] r = live -> "ACTIVE"
                                              [] OTHER -> "READY"]
        PROVE  ReleasesSound
    <2>1. \A r \in Releases : status[r] = IF r = old THEN "SUPERSEDED" ELSE
                                          IF r = live THEN "ACTIVE" ELSE "READY"
      BY <1>3
    <2>2. status \in [Releases -> Statuses]
      <3>1. \A r \in Releases : status[r] \in Statuses
        BY <2>1 DEF Statuses
      <3> QED
        BY <3>1, <1>3
    <2> QED
      BY <1>1, <1>3, <2>1, <2>2 DEF Init, ReleasesSound, ReleasesTyped, RolloutIsOfReleases,
           ServedReleaseIsCompared, ReferencedReleaseIsKept
  <1> QED
    BY <1>2, <1>3 DEF Init

\* The release that was ACTIVE is superseded or, referenced, retained; the new
\* one is the one ACTIVE release.
LEMMA ReplaceStep ==
  ASSUME ReleasesSound, NEW r \in Releases, r # active, Replace(active, r),
         referenced' = referenced
  PROVE  /\ status' \in [Releases -> Statuses] /\ active' \in Releases
         /\ \A s \in Releases : status'[s] = "ACTIVE" <=> s = active'
         /\ ReferencedReleaseIsKept'
  <1> USE LifecycleAssumption
  <1>1. \A s \in Releases :
          status'[s] = IF s = r THEN "ACTIVE"
                       ELSE IF s = active THEN Superseded(active) ELSE status[s]
    BY DEF Replace
  <1>2. Superseded(active) \in Statuses \ {"ACTIVE"}
    BY DEF Superseded, Statuses
  <1>3. \A s \in Releases : status'[s] \in Statuses
    BY <1>1, <1>2 DEF ReleasesSound, ReleasesTyped, Statuses
  <1>4. status' \in [Releases -> Statuses]
    BY <1>3 DEF Replace
  <1>5. \A s \in Releases : status'[s] = "ACTIVE" <=> s = active'
    BY <1>1, <1>2 DEF Replace, ReleasesSound, ServedReleaseIsCompared
  <1>6. ReferencedReleaseIsKept'
    BY <1>1 DEF ReleasesSound, ReleasesTyped, ReferencedReleaseIsKept, Superseded
  <1> QED
    BY <1>4, <1>5, <1>6 DEF Replace

\* A rollout that is closed keeps its type and compares nothing any more.
LEMMA CloseStep ==
  ASSUME ReleasesTyped, NEW state \in {"STOPPED", "COMPLETED", "ROLLED_BACK"},
         rollout' = Closed(state)
  PROVE  rollout' \in RolloutRecord /\ ~Open'
  BY DEF ReleasesTyped, Closed, RolloutRecord, Open, OpenStates

LEMMA ActivateStep ==
  ASSUME ReleasesSound, NEW r \in Releases, Activate(r)
  PROVE  ReleasesSound' /\ RetiredForGood
  <1> USE LifecycleAssumption
  <1>1. r # active /\ Replace(active, r) /\ UNCHANGED <<samples, referenced>>
    BY DEF Activate, ReleasesSound, ServedReleaseIsCompared
  <1>2. rollout' \in RolloutRecord /\ ~Open'
    <2>1. CASE HasActive
      <3>1. rollout' = Closed("COMPLETED")
        BY <2>1 DEF Activate
      <3> QED
        BY <3>1, CloseStep DEF ReleasesSound
    <2>2. CASE ~HasActive
      <3>1. rollout' = rollout
        BY <2>2 DEF Activate
      <3>2. ~Open
        BY <2>2 DEF ReleasesSound, ServedReleaseIsCompared, RolloutIsOfReleases, HasActive
      <3> QED
        BY <3>1, <3>2 DEF ReleasesSound, ReleasesTyped, Open
    <2> QED
      BY <2>1, <2>2
  <1>3. RetiredForGood
    BY <1>1 DEF RetiredForGood, Activate, Replace, ReleasesSound, ServedReleaseIsCompared
  <1> QED
    BY <1>1, <1>2, <1>3, ReplaceStep DEF ReleasesSound, ReleasesTyped, RolloutIsOfReleases,
         ServedReleaseIsCompared

LEMMA RollbackStep ==
  ASSUME ReleasesSound, NEW r \in Releases, Rollback(r)
  PROVE  ReleasesSound' /\ RetiredForGood
  <1> USE LifecycleAssumption
  <1>1. r # active /\ Replace(active, r) /\ UNCHANGED <<samples, referenced>>
    BY DEF Rollback
  <1>2. rollout' \in RolloutRecord /\ ~Open'
    <2>1. CASE Open
      <3>1. rollout' = Closed("ROLLED_BACK")
        BY <2>1 DEF Rollback, ClosedByRollback
      <3> QED
        BY <3>1, CloseStep DEF ReleasesSound
    <2>2. CASE ~Open
      <3>1. rollout' = rollout
        BY <2>2 DEF Rollback, ClosedByRollback
      <3> QED
        BY <3>1, <2>2 DEF ReleasesSound, ReleasesTyped, Open
    <2> QED
      BY <2>1, <2>2
  <1>3. RetiredForGood
    BY <1>1 DEF RetiredForGood, Rollback, Replace, ReleasesSound, ServedReleaseIsCompared
  <1> QED
    BY <1>1, <1>2, <1>3, ReplaceStep DEF ReleasesSound, ReleasesTyped, RolloutIsOfReleases,
         ServedReleaseIsCompared

\* References and retirement leave the ACTIVE release and the candidate alone.
LEMMA ReferenceStep ==
  ASSUME ReleasesSound, NEW r \in Releases,
         AddReference(r) \/ ReleaseReference(r) \/ Retire(r)
  PROVE  ReleasesSound' /\ RetiredForGood
  <1> USE LifecycleAssumption DEF ReleasesSound, ReleasesTyped, Statuses
  <1>1. UNCHANGED <<active, rollout, samples>> /\ Open' = Open
    BY DEF AddReference, ReleaseReference, Retire, Open
  <1>2. status' \in [Releases -> Statuses] /\ referenced' \subseteq Releases
    BY DEF AddReference, ReleaseReference, Retire
  <1>3. \A s \in Releases : /\ status'[s] = "ACTIVE" <=> status[s] = "ACTIVE"
                            /\ status[s] = "READY" => status'[s] = "READY"
                            /\ status[s] = "RETIRED" => status'[s] = "RETIRED"
    BY DEF AddReference, ReleaseReference, Retire
  <1>4. ReferencedReleaseIsKept'
    BY DEF ReferencedReleaseIsKept, AddReference, ReleaseReference, Retire
  <1>5. ServedReleaseIsCompared'
    BY <1>1, <1>3 DEF ServedReleaseIsCompared, RolloutIsOfReleases
  <1> QED
    BY <1>1, <1>2, <1>3, <1>4, <1>5 DEF RolloutIsOfReleases, RetiredForGood

\* A rollout starts with the ACTIVE release as its control, and its stages and
\* states change nothing else.
LEMMA RolloutStep ==
  ASSUME ReleasesSound,
         \/ \E r \in Releases : StartRollout(r)
         \/ Advance \/ Steer({"RUNNING"}, "PAUSED") \/ Steer({"PAUSED"}, "RUNNING")
         \/ Steer({"RUNNING", "PAUSED"}, "STOPPED")
  PROVE  ReleasesSound' /\ RetiredForGood
  <1> USE LifecycleAssumption
  <1>1. UNCHANGED <<status, active, referenced>> /\ samples' \subseteq Releases
    BY DEF StartRollout, Advance, Steer, StageStarts, ReleasesSound, ReleasesTyped
  <1> DEFINE Compares ==
               /\ rollout' \in RolloutRecord
               /\ Open' => rollout'.candidate \in Releases /\ rollout'.control \in Releases
               /\ Open' => rollout'.control = active /\ status[rollout'.candidate] = "READY"
  <1>2. Compares
    <2>1. ASSUME NEW r \in Releases, StartRollout(r) PROVE Compares
      BY <2>1 DEF StartRollout, HasActive, RolloutRecord, OpenStates, Stages, Percent,
           ReleasesSound, ReleasesTyped
    <2>2. CASE Advance
      <3> DEFINE next == NextStage[rollout.stage]
      <3>1. next \in Stages
        BY <2>2 DEF Advance, NextStage, Stages, Percent
      <3>2. /\ rollout'.candidate = rollout.candidate /\ rollout'.control = rollout.control
            /\ rollout' \in RolloutRecord /\ Open
        BY <2>2, <3>1 DEF Advance, RolloutRecord, OpenStates, Open, ReleasesSound, ReleasesTyped
      <3> QED
        BY <3>2 DEF ReleasesSound, RolloutIsOfReleases, ServedReleaseIsCompared
    <2>3. ASSUME NEW from \in SUBSET {"RUNNING", "PAUSED"},
                 NEW to \in {"PAUSED", "RUNNING", "STOPPED"}, Steer(from, to)
          PROVE  Compares
      <3>1. /\ rollout'.candidate = rollout.candidate /\ rollout'.control = rollout.control
            /\ rollout' \in RolloutRecord /\ Open
        BY <2>3 DEF Steer, Closed, RolloutRecord, OpenStates, Open, ReleasesSound, ReleasesTyped
      <3> QED
        BY <3>1 DEF ReleasesSound, RolloutIsOfReleases, ServedReleaseIsCompared
    <2> QED
      BY <2>1, <2>2, <2>3
  <1> QED
    BY <1>1, <1>2 DEF ReleasesSound, ReleasesTyped, RolloutIsOfReleases,
         ServedReleaseIsCompared, ReferencedReleaseIsKept, RetiredForGood

LEMMA OperateStep ==
  ASSUME ReleasesSound, Operate
  PROVE  ReleasesSound' /\ RetiredForGood
  BY ActivateStep, RollbackStep, ReferenceStep, RolloutStep DEF Operate

-----------------------------------------------------------------------------
(* Questions.                                                              *)

\* What an operation on releases does to questions: at most they fall out of
\* the stage.
LEMMA OperateLeavesQuestions ==
  ASSUME ReleasesSound, QuestionsTyped, RebindIsOfRetired, Operate, RetiredForGood
  PROVE  QuestionsTyped' /\ RebindIsOfRetired' /\ pin' = pin
  <1>1. pin' = pin
    BY DEF Operate, Activate, Rollback, Retire, StartRollout, AddReference, ReleaseReference,
         Advance, Steer
  <1>2. question' = question
          \/ question' = [q \in Questions |-> [question[q] EXCEPT !.inStage = FALSE]]
    BY DEF Operate, Activate, Rollback, Retire, StartRollout, AddReference, ReleaseReference,
         Advance, Steer, StageStarts
  <1>3. /\ question' \in [Questions -> QuestionRecord]
        /\ \A q \in Questions :
             /\ question'[q].pc = question[q].pc /\ question'[q].scope = question[q].scope
             /\ question'[q].conversation = question[q].conversation
             /\ question'[q].previous = question[q].previous
    <2>1. CASE question' = question
      BY <2>1 DEF QuestionsTyped
    <2>2. CASE question' = [q \in Questions |-> [question[q] EXCEPT !.inStage = FALSE]]
      <3>1. \A q \in Questions : question[q] \in QuestionRecord
        BY DEF QuestionsTyped
      <3>2. \A q \in Questions : question'[q] = [question[q] EXCEPT !.inStage = FALSE]
        BY <2>2
      <3>3. \A q \in Questions :
              /\ question'[q] \in QuestionRecord
              /\ question'[q].pc = question[q].pc /\ question'[q].scope = question[q].scope
              /\ question'[q].conversation = question[q].conversation
              /\ question'[q].previous = question[q].previous
        BY <3>1, <3>2 DEF QuestionRecord
      <3> QED
        BY <2>2, <3>3
    <2> QED
      BY <1>2, <2>1, <2>2
  <1> QED
    BY <1>1, <1>3 DEF QuestionsTyped, RebindIsOfRetired, RetiredForGood, At

\* The release an actor is routed to is one, once something is ACTIVE.
LEMMA RoutedIsRelease ==
  ASSUME ReleasesSound, HasActive, NEW c \in Conversations
  PROVE  Routed(c) \in Releases
  BY LifecycleAssumption
     DEF Routed, HasActive, ReleasesSound, ReleasesTyped, RolloutIsOfReleases, Open, OpenStates

\* A question that changes its program counter or the release it runs on stays
\* in its type; only Compare makes it one that moves from its pin.
LEMMA QuestionStays ==
  ASSUME QuestionsTyped, RebindIsOfRetired, NEW q \in Questions, UNCHANGED status,
         NEW record \in QuestionRecord, question' = [question EXCEPT ![q] = record],
         pin' \in [Conversations -> Releases \cup {None}],
         record.pc # "idle" => record.conversation # None /\ record.scope # None,
         record.pc \in {"rebind", "drifted"} => record.previous \in Releases,
         record.pc = "rebind" => status[record.previous] = "RETIRED"
  PROVE  QuestionsTyped' /\ RebindIsOfRetired'
  BY DEF QuestionsTyped, RebindIsOfRetired, At

\* A change of one field of a question is a change of the question.
LEMMA MovesIsRecord ==
  ASSUME QuestionsTyped, NEW q \in Questions, NEW pc, Moves(q, pc),
         pc \in {"idle", "new", "admitted", "refused", "bound"},
         ~At(q, "idle")
  PROVE  \E record \in QuestionRecord :
           /\ question' = [question EXCEPT ![q] = record] /\ record.pc = pc
           /\ record.conversation # None /\ record.scope # None
  <1> DEFINE record == [question[q] EXCEPT !.pc = pc]
  <1>1. record \in QuestionRecord /\ record.pc = pc
    BY DEF QuestionsTyped, QuestionRecord
  <1>2. record.conversation # None /\ record.scope # None
    BY DEF QuestionsTyped, QuestionRecord, At
  <1>3. question' = [question EXCEPT ![q] = record]
    BY DEF Moves, QuestionsTyped
  <1> QED
    BY <1>1, <1>2, <1>3

\* So a question that only moves on stays in its type.
LEMMA MovesStays ==
  ASSUME QuestionsTyped, RebindIsOfRetired, NEW q \in Questions, NEW pc, Moves(q, pc),
         pc \in {"idle", "new", "admitted", "refused", "bound"}, ~At(q, "idle"),
         UNCHANGED status, pin' \in [Conversations -> Releases \cup {None}]
  PROVE  QuestionsTyped' /\ RebindIsOfRetired'
  <1>1. PICK record \in QuestionRecord :
          /\ question' = [question EXCEPT ![q] = record] /\ record.pc = pc
          /\ record.conversation # None /\ record.scope # None
    BY MovesIsRecord
  <1>2. record.pc \notin {"rebind", "drifted"}
    BY <1>1
  <1> QED
    BY <1>1, <1>2, QuestionStays

LEMMA RouteStep ==
  ASSUME ReleasesSound, QuestionsTyped, RebindIsOfRetired,
         NEW q \in Questions, NEW c \in Conversations, Route(q, c)
  PROVE  QuestionsTyped' /\ RebindIsOfRetired'
  <1> DEFINE record == [pc |-> "routed", conversation |-> c, scope |-> Routed(c),
                        previous |-> None, inStage |-> FALSE]
  <1>1. Routed(c) \in Releases
    BY RoutedIsRelease DEF Route
  <1>2. record \in QuestionRecord
    BY <1>1 DEF QuestionRecord
  <1>3. c # None /\ Routed(c) # None
    BY <1>1, LifecycleAssumption
  <1>4. question' = [question EXCEPT ![q] = record] /\ UNCHANGED <<status, pin>>
    BY DEF Route, releaseVars
  <1> QED
    BY <1>2, <1>3, <1>4, QuestionStays DEF QuestionsTyped

LEMMA KeepStep ==
  ASSUME ReleasesSound, QuestionsTyped, RebindIsOfRetired, NEW q \in Questions, Keep(q)
  PROVE  QuestionsTyped' /\ RebindIsOfRetired'
  <1> DEFINE c == question[q].conversation
  <1>1. UNCHANGED <<status, pin>> /\ ~At(q, "idle")
    BY DEF Keep, releaseVars, At
  <1>2. CASE Kept(c)
    <2> DEFINE record == [question[q] EXCEPT !.pc = "admitted", !.scope = pin[c]]
    <2>1. pin[c] \in Releases
      BY <1>2 DEF Kept, Compared, ReleasesSound, RolloutIsOfReleases
    <2>2. /\ record \in QuestionRecord /\ record.pc = "admitted" /\ record.scope # None
          /\ record.conversation # None
      BY <1>1, <2>1, LifecycleAssumption DEF QuestionsTyped, QuestionRecord, At
    <2>3. question' = [question EXCEPT ![q] = record]
      BY <1>2 DEF Keep, Admits, QuestionsTyped
    <2> HIDE DEF record
    <2> QED
      BY <1>1, <2>2, <2>3, QuestionStays DEF QuestionsTyped
  <1>3. CASE ~Kept(c)
    <2>1. Moves(q, "new")
      BY <1>3 DEF Keep
    <2> QED
      BY <1>1, <2>1, MovesStays DEF QuestionsTyped
  <1> QED
    BY <1>2, <1>3

LEMMA CompareStep ==
  ASSUME ReleasesSound, QuestionsTyped, RebindIsOfRetired, NEW q \in Questions, Compare(q)
  PROVE  QuestionsTyped' /\ RebindIsOfRetired'
  <1> DEFINE pinned == pin[question[q].conversation]
  <1>1. UNCHANGED <<status, pin>> /\ ~At(q, "idle")
    BY DEF Compare, releaseVars, At
  <1>2. CASE Moves(q, "admitted") \/ Moves(q, "refused")
    BY <1>1, <1>2, MovesStays DEF QuestionsTyped
  <1>3. ASSUME pinned # None, NEW pc \in {"rebind", "drifted", "carried"},
               pc = "rebind" => status[pinned] = "RETIRED",
               question' = [question EXCEPT ![q].previous = pinned, ![q].pc = pc]
        PROVE  QuestionsTyped' /\ RebindIsOfRetired'
    <2> DEFINE record == [question[q] EXCEPT !.previous = pinned, !.pc = pc]
    <2>1. question[q].conversation \in Conversations
      BY <1>1 DEF QuestionsTyped, QuestionRecord, At
    <2>2. pinned \in Releases
      BY <1>3, <2>1 DEF QuestionsTyped
    <2>3. /\ record \in QuestionRecord /\ record.pc = pc /\ record.previous = pinned
          /\ record.scope # None /\ record.conversation # None
      BY <1>1, <1>3, <2>2 DEF QuestionsTyped, QuestionRecord, At
    <2>4. question' = [question EXCEPT ![q] = record]
      BY <1>3 DEF QuestionsTyped
    <2> HIDE DEF record
    <2>5. record.pc = "rebind" => status[record.previous] = "RETIRED"
      BY <1>3, <2>3
    <2> QED
      BY <1>1, <2>2, <2>3, <2>4, <2>5, QuestionStays DEF QuestionsTyped
  <1>4. CASE /\ pinned # None
             /\ question' = [question EXCEPT ![q].previous = pinned,
                                             ![q].pc = StalePin(q, pinned)]
    <2> DEFINE pc == StalePin(q, pinned)
    <2>1. pc \in {"rebind", "drifted", "carried"} /\ (pc = "rebind" => status[pinned] = "RETIRED")
      BY DEF StalePin
    <2>2. question' = [question EXCEPT ![q].previous = pinned, ![q].pc = pc]
      BY <1>4
    <2> HIDE DEF pc
    <2> QED
      BY <1>3, <1>4, <2>1, <2>2
  <1>5. Moves(q, IF At(q, "new") THEN "admitted" ELSE "refused") =>
          Moves(q, "admitted") \/ Moves(q, "refused")
    BY DEF Moves
  <1> QED
    BY <1>2, <1>4, <1>5 DEF Compare

\* An answer starts with the release of its run, ...
LEMMA AnswerStep ==
  ASSUME ReleasesSound, QuestionsTyped, RebindIsOfRetired,
         NEW q \in Questions, NEW c \in Conversations, Answer(q, c)
  PROVE  QuestionsTyped' /\ RebindIsOfRetired'
  <1> USE LifecycleAssumption
  <1>1. PICK r \in RunsOf(c) :
          question' = [question EXCEPT ![q] = [pc |-> "answer", conversation |-> c, scope |-> r,
                                               previous |-> None, inStage |-> FALSE]]
    BY DEF Answer
  <1>2. r \in Releases
    <2>1. CASE r \in {pin[c]} \ {None}
      BY <2>1 DEF QuestionsTyped
    <2>2. ASSUME NEW p \in Questions, question[p].pc \in {"running", "bound"}, r = question[p].scope
          PROVE  r \in Releases
      BY <2>2 DEF QuestionsTyped, QuestionRecord, At
    <2> QED
      BY <1>1, <2>1, <2>2 DEF RunsOf
  <1> DEFINE record == [pc |-> "answer", conversation |-> c, scope |-> r, previous |-> None,
                        inStage |-> FALSE]
  <1>3. record \in QuestionRecord
    BY <1>2 DEF QuestionRecord
  <1>4. /\ record.pc = "answer" /\ record.conversation # None /\ record.scope # None
        /\ question' = [question EXCEPT ![q] = record]
    BY <1>1, <1>2
  <1>5. UNCHANGED <<status, pin>>
    BY DEF Answer, releaseVars
  <1> HIDE DEF record
  <1>6. record.pc \notin {"idle", "rebind", "drifted"}
    BY <1>4
  <1> QED
    BY <1>3, <1>4, <1>5, <1>6, QuestionStays DEF QuestionsTyped

\* ... and is then routed like a question.
LEMMA RouteAnswerStep ==
  ASSUME ReleasesSound, QuestionsTyped, RebindIsOfRetired, NEW q \in Questions, RouteAnswer(q)
  PROVE  QuestionsTyped' /\ RebindIsOfRetired'
  <1> DEFINE r == Routed(question[q].conversation)
             record == [question[q] EXCEPT !.pc = "answered", !.scope = r]
  <1>1. question[q].conversation \in Conversations
    BY DEF RouteAnswer, QuestionsTyped, QuestionRecord, At
  <1>2. r \in Releases /\ r # None
    BY <1>1, RoutedIsRelease, LifecycleAssumption DEF RouteAnswer
  <1> HIDE DEF r
  <1>3. /\ record \in QuestionRecord /\ record.pc = "answered"
        /\ record.conversation # None /\ record.scope # None
    BY <1>1, <1>2, LifecycleAssumption DEF QuestionsTyped, QuestionRecord
  <1>4. question' = [question EXCEPT ![q] = record]
    BY DEF RouteAnswer, QuestionsTyped, r
  <1>5. UNCHANGED <<status, pin>>
    BY DEF RouteAnswer, releaseVars
  <1> HIDE DEF record
  <1>6. record.pc \notin {"idle", "rebind", "drifted"}
    BY <1>3
  <1> QED
    BY <1>3, <1>4, <1>5, <1>6, QuestionStays DEF QuestionsTyped

LEMMA ConfirmStep ==
  ASSUME ReleasesSound, QuestionsTyped, RebindIsOfRetired, NEW q \in Questions, Confirm(q)
  PROVE  QuestionsTyped' /\ RebindIsOfRetired'
  <1>1. UNCHANGED status /\ ~At(q, "idle")
    BY DEF Confirm, releaseVars, At
  <1>2. question[q].scope \in Releases
    BY <1>1 DEF QuestionsTyped, QuestionRecord, At
  <1>3. pin' \in [Conversations -> Releases \cup {None}]
    BY <1>2 DEF Confirm, QuestionsTyped
  <1>4. Moves(q, "idle") \/ Moves(q, "admitted") \/ Moves(q, "refused")
    BY DEF Confirm, Moves
  <1> QED
    BY <1>1, <1>3, <1>4, MovesStays

LEMMA CreateStep ==
  ASSUME ReleasesSound, QuestionsTyped, RebindIsOfRetired, NEW q \in Questions, Create(q)
  PROVE  QuestionsTyped' /\ RebindIsOfRetired'
  <1> DEFINE fits == Fits(q) /\ Runnable(q)
             record == [question[q] EXCEPT !.pc = IF fits THEN "running" ELSE "refused",
                                           !.inStage = fits]
  <1>1. UNCHANGED <<status, pin>> /\ ~At(q, "idle")
    BY DEF Create, releaseVars, At
  <1>2. fits \in BOOLEAN
    BY DEF Fits, Runnable
  <1>3. /\ record \in QuestionRecord /\ record.pc \in {"running", "refused"}
        /\ record.scope # None /\ record.conversation # None
    <2> HIDE DEF fits
    <2> QED
      BY <1>1, <1>2 DEF QuestionsTyped, QuestionRecord, At
  <1>4. question' = [question EXCEPT ![q] = record]
    BY DEF Create, QuestionsTyped
  <1> HIDE DEF record
  <1> QED
    BY <1>1, <1>3, <1>4, QuestionStays DEF QuestionsTyped

LEMMA BindStep ==
  ASSUME ReleasesSound, QuestionsTyped, RebindIsOfRetired, NEW q \in Questions, Bind(q)
  PROVE  QuestionsTyped' /\ RebindIsOfRetired'
  <1>1. UNCHANGED status /\ ~At(q, "idle") /\ Moves(q, "bound")
    BY DEF Bind, releaseVars, At
  <1>2. question[q].scope \in Releases
    BY <1>1 DEF QuestionsTyped, QuestionRecord, At
  <1>3. pin' \in [Conversations -> Releases \cup {None}]
    BY <1>2 DEF Bind, QuestionsTyped
  <1> QED
    BY <1>1, <1>3, MovesStays

LEMMA IdleStep ==
  ASSUME ReleasesSound, QuestionsTyped, RebindIsOfRetired, NEW q \in Questions,
         UNCHANGED <<status, pin>>, question' = [question EXCEPT ![q] = Idle]
  PROVE  QuestionsTyped' /\ RebindIsOfRetired'
  <1>1. Idle \in QuestionRecord /\ Idle.pc = "idle"
    BY DEF Idle, QuestionRecord
  <1> QED
    BY <1>1, QuestionStays DEF QuestionsTyped

\* An outcome is at most a sample that stops the rollout.
LEMMA FinishStep ==
  ASSUME ReleasesSound, QuestionsTyped, NEW q \in Questions, NEW stops \in BOOLEAN,
         Finish(q, stops)
  PROVE  ReleasesSound'
  <1>1. UNCHANGED <<status, active, referenced>> /\ samples' \subseteq Releases
    <2>1. question[q].scope \in Releases
      BY DEF Finish, QuestionsTyped, QuestionRecord, At
    <2> QED
      BY <2>1 DEF Finish, ReleasesSound, ReleasesTyped
  <1>2. rollout' = rollout \/ rollout' = Closed("STOPPED")
    <2>1. rollout' = IF stops THEN Closed("STOPPED") ELSE rollout
      BY DEF Finish
    <2> QED
      BY <2>1
  <1>3. rollout' = rollout \/ (rollout' \in RolloutRecord /\ ~Open')
    <2>1. CASE rollout' = Closed("STOPPED")
      BY <2>1, CloseStep DEF ReleasesSound
    <2> QED
      BY <1>2, <2>1
  <1>4. CASE rollout' = rollout
    BY <1>1, <1>4 DEF ReleasesSound, ReleasesTyped, RolloutIsOfReleases, Open,
         ServedReleaseIsCompared, ReferencedReleaseIsKept
  <1>5. CASE rollout' \in RolloutRecord /\ ~Open'
    BY <1>1, <1>5 DEF ReleasesSound, ReleasesTyped, RolloutIsOfReleases,
         ServedReleaseIsCompared, ReferencedReleaseIsKept
  <1> QED
    BY <1>3, <1>4, <1>5

LEMMA ReleasesUnchanged ==
  ASSUME ReleasesSound, UNCHANGED releaseVars
  PROVE  ReleasesSound' /\ RetiredForGood
  BY DEF releaseVars, ReleasesSound, ReleasesTyped, RolloutIsOfReleases, Open,
       ServedReleaseIsCompared, ReferencedReleaseIsKept, RetiredForGood

LEMMA AskStep ==
  ASSUME LifecycleInv, NEW q \in Questions, Ask(q)
  PROVE  LifecycleInv'
  <1> USE DEF LifecycleInv
  <1>1. ASSUME NEW c \in Conversations, Route(q, c) PROVE LifecycleInv'
    <2>1. UNCHANGED releaseVars
      BY <1>1 DEF Route
    <2> QED
      BY <1>1, <2>1, RouteStep, ReleasesUnchanged
  <1>2. CASE Keep(q)
    <2>1. UNCHANGED releaseVars
      BY <1>2 DEF Keep
    <2> QED
      BY <1>2, <2>1, KeepStep, ReleasesUnchanged
  <1>3. CASE Compare(q)
    <2>1. UNCHANGED releaseVars
      BY <1>3 DEF Compare
    <2> QED
      BY <1>3, <2>1, CompareStep, ReleasesUnchanged
  <1>4. CASE Confirm(q)
    <2>1. UNCHANGED releaseVars
      BY <1>4 DEF Confirm
    <2> QED
      BY <1>4, <2>1, ConfirmStep, ReleasesUnchanged
  <1>5. CASE Decline(q)
    <2>1. /\ UNCHANGED releaseVars /\ UNCHANGED <<status, pin>>
          /\ question' = [question EXCEPT ![q] = Idle]
      BY <1>5 DEF Decline, releaseVars
    <2> QED
      BY <2>1, IdleStep, ReleasesUnchanged
  <1>6. CASE Create(q)
    <2>1. UNCHANGED releaseVars
      BY <1>6 DEF Create
    <2> QED
      BY <1>6, <2>1, CreateStep, ReleasesUnchanged
  <1>7. CASE Bind(q)
    <2>1. UNCHANGED releaseVars
      BY <1>7 DEF Bind
    <2> QED
      BY <1>7, <2>1, BindStep, ReleasesUnchanged
  <1>9. ASSUME NEW c \in Conversations, Answer(q, c) PROVE LifecycleInv'
    <2>1. UNCHANGED releaseVars
      BY <1>9 DEF Answer
    <2> QED
      BY <1>9, <2>1, AnswerStep, ReleasesUnchanged
  <1>10. CASE RouteAnswer(q)
    <2>1. UNCHANGED releaseVars
      BY <1>10 DEF RouteAnswer
    <2> QED
      BY <1>10, <2>1, RouteAnswerStep, ReleasesUnchanged
  <1>8. ASSUME NEW stops \in BOOLEAN, Finish(q, stops) PROVE LifecycleInv'
    <2>1. UNCHANGED <<status, pin>> /\ question' = [question EXCEPT ![q] = Idle]
      BY <1>8 DEF Finish
    <2> QED
      BY <1>8, <2>1, IdleStep, FinishStep
  <1> QED
    BY <1>1, <1>2, <1>3, <1>4, <1>5, <1>6, <1>7, <1>8, <1>9, <1>10 DEF Ask

-----------------------------------------------------------------------------
(* The invariant.                                                          *)

LEMMA LifecycleInit == Init => LifecycleInv
  <1> SUFFICES ASSUME Init PROVE LifecycleInv
    OBVIOUS
  <1>1. ReleasesSound
    BY ReleasesInit
  <1>2. Idle \in QuestionRecord /\ Idle.pc = "idle"
    BY DEF Idle, QuestionRecord
  <1>3. QuestionsTyped /\ RebindIsOfRetired
    BY <1>2 DEF Init, QuestionsTyped, RebindIsOfRetired, At
  <1> QED
    BY <1>1, <1>3 DEF LifecycleInv

LEMMA LifecycleStutter == LifecycleInv /\ UNCHANGED vars => LifecycleInv'
  <1> SUFFICES ASSUME LifecycleInv, UNCHANGED vars PROVE LifecycleInv'
    OBVIOUS
  <1>1. ReleasesSound'
    BY ReleasesUnchanged DEF LifecycleInv, vars, releaseVars
  <1>2. QuestionsTyped' /\ RebindIsOfRetired'
    BY DEF LifecycleInv, vars, QuestionsTyped, RebindIsOfRetired, At
  <1> QED
    BY <1>1, <1>2 DEF LifecycleInv

LEMMA LifecycleStep == LifecycleInv /\ [Next]_vars => LifecycleInv'
  <1> SUFFICES ASSUME LifecycleInv, [Next]_vars PROVE LifecycleInv'
    OBVIOUS
  <1>1. CASE Operate
    BY <1>1, OperateStep, OperateLeavesQuestions DEF LifecycleInv
  <1>2. CASE \E q \in Questions : Ask(q)
    BY <1>2, AskStep
  <1>3. CASE UNCHANGED vars
    BY <1>3, LifecycleStutter
  <1> QED
    BY <1>1, <1>2, <1>3 DEF Next

LEMMA LifecycleInvariant == Spec => []LifecycleInv
  BY LifecycleInit, LifecycleStep, PTL DEF Spec

\* Every reachable state of releases, rollout, pins and questions is typed.
THEOREM LifecycleTypeCorrect == Spec => []LifecycleTypeOK
  <1>1. LifecycleInv => LifecycleTypeOK
    BY DEF LifecycleInv, ReleasesSound, ReleasesTyped, QuestionsTyped, LifecycleTypeOK, Statuses
  <1> QED
    BY <1>1, LifecycleInvariant, PTL

\* The domain serves one release, and an open rollout compares a READY
\* candidate with that one (activate_release, RollbackRelease).
THEOREM ServedReleaseCompared == Spec => []ServedReleaseIsCompared
  <1>1. LifecycleInv => ServedReleaseIsCompared
    BY DEF LifecycleInv, ReleasesSound
  <1> QED
    BY <1>1, LifecycleInvariant, PTL

\* A referenced release is never left SUPERSEDED or RETIRED
\* (enforce_release_retention_lifecycle).
THEOREM ReferencedReleaseKept == Spec => []ReferencedReleaseIsKept
  <1>1. LifecycleInv => ReferencedReleaseIsKept
    BY DEF LifecycleInv, ReleasesSound
  <1> QED
    BY <1>1, LifecycleInvariant, PTL

\* One question's step: a pin that was set moves only from a stale release to
\* the ACTIVE one, at the owner's request or since the old release is retired.
LEMMA AskMovesPin ==
  ASSUME LifecycleInv, NEW q \in Questions, Ask(q), NEW c \in Conversations,
         pin[c] # None, pin'[c] # pin[c]
  PROVE  /\ Stale(pin[c]) /\ status[pin'[c]] = "ACTIVE"
         /\ \/ status[pin[c]] = "RETIRED"
            \/ /\ question[q].pc \in {"drifted", "carried"}
               /\ question[q].conversation = c /\ question'[q] # question[q]
  <1> USE DEF LifecycleInv
  <1>1. Confirm(q) \/ Bind(q)
    BY DEF Ask, Route, Answer, RouteAnswer, Keep, Compare, Decline, Create, Finish
  <1>2. ~Bind(q)
    <2> SUFFICES ASSUME Bind(q) PROVE FALSE
      OBVIOUS
    <2>1. c = question[q].conversation /\ pin'[c] = question[q].scope
      BY DEF Bind, QuestionsTyped
    <2> QED
      BY <2>1 DEF Bind, Binds
  <1>3. /\ c = question[q].conversation /\ pin'[c] = question[q].scope
        /\ status[question[q].scope] = "ACTIVE"
        /\ pin[c] = question[q].previous /\ Stale(pin[c])
    BY <1>1, <1>2 DEF Confirm, QuestionsTyped
  <1>4. CASE At(q, "rebind")
    BY <1>3, <1>4 DEF RebindIsOfRetired
  <1>5. CASE question[q].pc \in {"drifted", "carried"}
    <2>1. Moves(q, "idle") \/ Moves(q, "admitted") \/ Moves(q, "refused")
      BY <1>1, <1>2 DEF Confirm, Moves
    <2>2. question'[q].pc \in {"idle", "admitted", "refused"}
      BY <2>1 DEF Moves, QuestionsTyped, QuestionRecord
    <2> QED
      BY <1>3, <1>5, <2>2
  <1> QED
    BY <1>1, <1>2, <1>4, <1>5 DEF Confirm, At

\* A conversation goes on with the release it answered from until its owner
\* confirms another, answers a clarification, or that release is retired
\* (confirmReleaseDrift, SubmitClarification, pinConversationAfterBindingTx).
THEOREM PinMovesOnlyByOwner == Spec => PinMovesByOwner
  <1> DEFINE ByOwner ==
               \A c \in Conversations : pin[c] # None /\ pin'[c] # pin[c] =>
                 /\ Stale(pin[c]) /\ status[pin'[c]] = "ACTIVE"
                 /\ \/ status[pin[c]] = "RETIRED"
                    \/ \E q \in Questions : /\ question[q].pc \in {"drifted", "carried"}
                                            /\ question[q].conversation = c /\ question'[q] # question[q]
  <1>1. LifecycleInv /\ [Next]_vars => [ByOwner]_vars
    <2> SUFFICES ASSUME LifecycleInv, Next PROVE ByOwner
      BY DEF vars
    <2>1. CASE Operate
      <3>1. pin' = pin
        BY <2>1, OperateStep, OperateLeavesQuestions DEF LifecycleInv
      <3> QED
        BY <3>1
    <2>2. ASSUME NEW q \in Questions, Ask(q) PROVE ByOwner
      BY <2>2, AskMovesPin
    <2> QED
      BY <2>1, <2>2 DEF Next
  <1>2. PinMovesByOwner <=> [][ByOwner]_vars
    BY PTL DEF PinMovesByOwner
  <1> HIDE DEF ByOwner
  <1> QED
    BY <1>1, <1>2, LifecycleInvariant, PTL DEF Spec
=============================================================================
