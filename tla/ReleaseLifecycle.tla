-------------------------- MODULE ReleaseLifecycle --------------------------
(***************************************************************************)
(* The releases of one business domain after their projection: which one   *)
(* is ACTIVE, the rollout that compares a candidate with it, references    *)
(* and retention, rollback and retirement, and the questions that are      *)
(* routed to a release and the conversations they pin to it.               *)
(*                                                                         *)
(* An operation on releases is one transaction that locks the rows it      *)
(* decides on, and one action.  Its expected version holds exactly when    *)
(* nothing changed since the caller looked, so it needs no variable.       *)
(* Asking a question is a chain of transactions (route, keep, compare with *)
(* the conversation's pin, create the run, pin, finish), one action each;  *)
(* so is answering a clarification, as far as the conversation's pin.      *)
(*                                                                         *)
(* Abstractions.  The evaluation gate, the review report and the approvals *)
(* of an activation may hold at any time; so may the end of the retention  *)
(* window and of the shortest duration of a stage.  One sample of a        *)
(* release stands for the number a stage asks for, and whether samples     *)
(* stop a rollout is open.  A bucket is an actor's for all rollouts.       *)
(***************************************************************************)
EXTENDS Naturals, FiniteSets

CONSTANTS Releases,       \* releases that have been projected
          Conversations,  \* pin_source ASKDATA, one actor each
          Questions,      \* requests and runs under way at a time
          Bucket,         \* release_rollout_bucket of the conversation's actor
          MaxReferences,  \* bound: releases referenced at a time
          None

ASSUME LifecycleAssumption ==
  /\ IsFiniteSet(Releases) /\ None \notin Releases /\ None \notin Conversations
  /\ Bucket \in [Conversations -> 0..99]
  /\ MaxReferences \in Nat

VARIABLES status,         \* releases.status
          active,         \* release_state.active_release_id
          rollout,        \* the domain's latest rollout
          samples,        \* releases with samples of the rollout's stage
          referenced,     \* releases with a reference not yet released
          pin,            \* conversations.pinned_release_id
          question        \* what each request and its run are doing

releaseVars == <<status, active, rollout, samples, referenced>>
vars == <<status, active, rollout, samples, referenced, pin, question>>

Percent == [SHADOW |-> 0, CANARY_5 |-> 5, CANARY_20 |-> 20, CANARY_50 |-> 50,
            ACCEPTED_95 |-> 95]
NextStage == [SHADOW |-> "CANARY_5", CANARY_5 |-> "CANARY_20", CANARY_20 |-> "CANARY_50",
              CANARY_50 |-> "ACCEPTED_95"]
Stages == DOMAIN Percent
OpenStates == {"RUNNING", "PAUSED", "ACCEPTED"}

RolloutRecord ==
  [state : OpenStates \cup {"NONE", "STOPPED", "COMPLETED", "ROLLED_BACK"},
   stage : Stages, candidate : Releases \cup {None}, control : Releases \cup {None}]

QuestionRecord ==
  [pc : {"idle", "routed", "new", "rebind", "drifted", "admitted", "running", "bound", "refused",
         "answer", "answered", "carried"},
   conversation : Conversations \cup {None},
   scope : Releases \cup {None},    \* the release the question is to run on
   previous : Releases \cup {None}, \* the stale pin it found
   inStage : BOOLEAN]               \* created_at >= rollout.stage_started_at

Idle == [pc |-> "idle", conversation |-> None, scope |-> None, previous |-> None,
         inStage |-> FALSE]

Open == rollout.state \in OpenStates
At(q, pc) == question[q].pc = pc
Stale(r) == status[r] \in {"SUPERSEDED", "RETAINED", "RETIRED"}

\* (A domain always has one.)
AlwaysActive == TRUE

\* active_release_id is nullable: nothing has been activated in the domain.
HasActive == active # None

Compared == {rollout.candidate, rollout.control}

\* A domain with nothing ACTIVE yet, and one that had replaced a release
\* before a replacement needed a rollout.
Init ==
  /\ \/ /\ status = [r \in Releases |-> "READY"] /\ active = None /\ referenced = {}
     \/ \E old, live \in Releases :
          /\ old # live /\ active = live
          /\ status = [r \in Releases |-> CASE r = old -> "SUPERSEDED" [] r = live -> "ACTIVE"
                                            [] OTHER -> "READY"]
          /\ referenced = {}
  /\ rollout = [state |-> "NONE", stage |-> "SHADOW", candidate |-> None, control |-> None]
  /\ samples = {}
  /\ pin = [c \in Conversations |-> None]
  /\ question = [q \in Questions |-> Idle]

----------------------------------------------------------------------------
(* Releases.                                                               *)

\* (A reference is looked at when the release retires only.)
AlwaysSuperseded(r) == "SUPERSEDED"

\* enforce_release_retention_lifecycle turns SUPERSEDED into RETAINED while
\* the release is referenced.
Superseded(r) == IF r \in referenced THEN "RETAINED" ELSE "SUPERSEDED"

Replace(old, new) ==
  /\ status' = [r \in Releases |-> IF r = new THEN "ACTIVE"
                                   ELSE IF r = old THEN Superseded(r) ELSE status[r]]
  /\ active' = new

Closed(state) == [rollout EXCEPT !.state = state]

\* activate_release: the first release of a domain as it is, any other only
\* with an accepted rollout against the release that is ACTIVE now.
Activate(r) ==
  /\ status[r] \in {"READY", "SUPERSEDED"}
  /\ HasActive =>
       rollout.state = "ACCEPTED" /\ rollout.candidate = r /\ rollout.control = active
  /\ Replace(active, r)
  /\ rollout' = IF HasActive THEN Closed("COMPLETED") ELSE rollout
  /\ UNCHANGED <<samples, referenced, pin, question>>

\* (The rollout stays open.)
KeptOpen == rollout

ClosedByRollback == IF Open THEN Closed("ROLLED_BACK") ELSE rollout

Rollback(r) ==
  /\ HasActive /\ r # active /\ status[r] \in {"SUPERSEDED", "RETAINED"}
  /\ Replace(active, r)
  /\ rollout' = ClosedByRollback
  /\ UNCHANGED <<samples, referenced, pin, question>>

\* AddReference and its triggers: a SUPERSEDED release that is referenced is
\* retained.
AddReference(r) ==
  /\ r \notin referenced /\ Cardinality(referenced) < MaxReferences
  /\ status[r] \in {"READY", "ACTIVE", "SUPERSEDED", "RETAINED"}
  /\ referenced' = referenced \cup {r}
  /\ status' = [status EXCEPT ![r] = IF @ = "SUPERSEDED" THEN "RETAINED" ELSE @]
  /\ UNCHANGED <<active, rollout, samples, pin, question>>

ReleaseReference(r) ==
  /\ r \in referenced
  /\ referenced' = referenced \ {r}
  /\ UNCHANGED <<status, active, rollout, samples, pin, question>>

Retire(r) ==
  /\ r \notin referenced /\ status[r] \in {"SUPERSEDED", "RETAINED"}
  /\ status' = [status EXCEPT ![r] = "RETIRED"]
  /\ UNCHANGED <<active, rollout, samples, referenced, pin, question>>

----------------------------------------------------------------------------
(* The rollout.                                                            *)

\* The stage starts now: no question was created in it.
StageStarts ==
  /\ samples' = {}
  /\ question' = [q \in Questions |-> [question[q] EXCEPT !.inStage = FALSE]]

StartRollout(r) ==
  /\ status[r] = "READY" /\ HasActive /\ active # r
  /\ ~Open                              \* one_open_domain_idx
  /\ rollout' = [state |-> "RUNNING", stage |-> "SHADOW", candidate |-> r, control |-> active]
  /\ StageStarts
  /\ UNCHANGED <<status, active, referenced, pin>>

\* release_rollout_observability: a shadow stage asks for questions answered
\* by the control (each repeated in the shadow), a canary for both sides'.
Sampled == IF rollout.stage = "SHADOW" THEN rollout.control \in samples ELSE Compared \subseteq samples

Advance ==
  /\ rollout.state = "RUNNING" /\ rollout.stage \in DOMAIN NextStage /\ Sampled
  /\ LET next == NextStage[rollout.stage]
     IN rollout' = [rollout EXCEPT !.stage = next,
                                   !.state = IF next = "ACCEPTED_95" THEN "ACCEPTED" ELSE @]
  /\ StageStarts
  /\ UNCHANGED <<status, active, referenced, pin>>

\* mutateReleaseRollout with PAUSE, RESUME and STOP.
Steer(from, to) ==
  /\ rollout.state \in from
  /\ rollout' = Closed(to)
  /\ UNCHANGED <<status, active, samples, referenced, pin, question>>

Operate ==
  \/ \E r \in Releases : Activate(r) \/ Rollback(r) \/ Retire(r) \/ StartRollout(r)
                         \/ AddReference(r) \/ ReleaseReference(r)
  \/ Advance
  \/ Steer({"RUNNING"}, "PAUSED")
  \/ Steer({"PAUSED"}, "RUNNING")
  \/ Steer({"RUNNING", "PAUSED"}, "STOPPED")

----------------------------------------------------------------------------
(* A question.                                                             *)

\* resolve_question_release: the ACTIVE release, or the candidate for the
\* share of actors the stage gives it.
Routed(c) ==
  IF /\ rollout.state = "RUNNING" /\ rollout.control = active
     /\ Bucket[c] < Percent[rollout.stage] /\ status[rollout.candidate] = "READY"
  THEN rollout.candidate ELSE active

Moves(q, pc) == question' = [question EXCEPT ![q].pc = pc]
Admits(q, r) == question' = [question EXCEPT ![q].pc = "admitted", ![q].scope = r]

\* resolveActiveScope.
Route(q, c) ==
  /\ question[q].pc \in {"idle", "refused"} /\ HasActive
  /\ question' = [question EXCEPT ![q] = [pc |-> "routed", conversation |-> c,
                                          scope |-> Routed(c), previous |-> None,
                                          inStage |-> FALSE]]
  /\ UNCHANGED <<releaseVars, pin>>

\* resolveOpenRolloutConversationScope: while a rollout is open, a pin on
\* one of its two releases decides.
Kept(c) == Open /\ rollout.control = active /\ pin[c] \in Compared

Keep(q) ==
  /\ At(q, "routed")
  /\ LET c == question[q].conversation
     IN IF Kept(c) THEN Admits(q, pin[c]) ELSE Moves(q, "new")
  /\ UNCHANGED <<releaseVars, pin>>

\* The releases of the runs of a conversation that an answer can be sent to:
\* one that bound, or one under way.
RunsOf(c) ==
  ({pin[c]} \ {None}) \cup
    {question[p].scope : p \in {p \in Questions : question[p].conversation = c
                                                  /\ question[p].pc \in {"running", "bound"}}}

\* SubmitClarification, for a run of any state.  (Where a rollout decides the
\* release, or in the end, all that follows is the child, which is refused: see
\* ClarificationAnswerable in QuestionRun.)
Answer(q, c) ==
  /\ question[q].pc \in {"idle", "refused"} /\ ~Kept(c)
  /\ \E r \in RunsOf(c) :
       question' = [question EXCEPT ![q] = [pc |-> "answer", conversation |-> c, scope |-> r,
                                            previous |-> None, inStage |-> FALSE]]
  /\ UNCHANGED <<releaseVars, pin>>

RouteAnswer(q) ==
  /\ At(q, "answer") /\ HasActive
  /\ question' = [question EXCEPT ![q].pc = "answered",
                                  ![q].scope = Routed(question[q].conversation)]
  /\ UNCHANGED <<releaseVars, pin>>

\* What becomes of a stale pin: a retired one moves, the owner of another is
\* asked, but an answer carries it along in either case.
StalePin(q, r) ==
  IF At(q, "answered") THEN "carried" ELSE IF status[r] = "RETIRED" THEN "rebind" ELSE "drifted"

\* resolveConversationRelease and ResolvePinnedRelease: the routed release
\* must be ACTIVE.
Compare(q) ==
  /\ question[q].pc \in {"new", "answered"}
  /\ LET r == question[q].scope
         pinned == pin[question[q].conversation]
     IN \/ /\ status[r] = "ACTIVE" /\ pinned \in {None, r}
           /\ Moves(q, IF At(q, "new") THEN "admitted" ELSE "refused")
        \/ /\ status[r] = "ACTIVE" /\ pinned # None /\ Stale(pinned)
           /\ question' = [question EXCEPT ![q].previous = pinned, ![q].pc = StalePin(q, pinned)]
        \/ /\ status[r] # "ACTIVE" \/ (pinned \notin {None, r} /\ ~Stale(pinned))
           /\ Moves(q, "refused")
  /\ UNCHANGED <<releaseVars, pin>>

\* confirmReleaseDrift, for the owner of the conversation, for an answer, or for
\* a question whose pin is retired: FOR SHARE of the release, FOR UPDATE of the
\* conversation, and the pin moves only from a stale release to ACTIVE.
Confirm(q) ==
  /\ question[q].pc \in {"drifted", "rebind", "carried"}
  /\ LET c == question[q].conversation
         r == question[q].scope
         moves == status[r] = "ACTIVE" /\ pin[c] = question[q].previous /\ Stale(pin[c])
     IN /\ pin' = IF moves THEN [pin EXCEPT ![c] = r] ELSE pin
        /\ Moves(q, IF At(q, "drifted") THEN "idle"
                    ELSE IF At(q, "rebind") /\ (moves \/ (pin[c] = r /\ status[r] = "ACTIVE"))
                    THEN "admitted" ELSE "refused")
  /\ UNCHANGED releaseVars

\* The owner does not confirm.
Decline(q) ==
  /\ At(q, "drifted")
  /\ question' = [question EXCEPT ![q] = Idle]
  /\ UNCHANGED <<releaseVars, pin>>

\* createRunTx: the conversation's pin, if any, is the run's release.
Fits(q) == pin[question[q].conversation] \in {None, question[q].scope}

\* lock_active_question_release.
Runnable(q) == \/ status[question[q].scope] = "ACTIVE"
               \/ Routed(question[q].conversation) = question[q].scope

Create(q) ==
  /\ At(q, "admitted")
  /\ question' = [question EXCEPT ![q].pc = IF Fits(q) /\ Runnable(q) THEN "running" ELSE "refused",
                                  ![q].inStage = Fits(q) /\ Runnable(q)]
  /\ UNCHANGED <<releaseVars, pin>>

\* (The pin is written whatever it was.)
BindsAnyway(q) == Routed(question[q].conversation) = question[q].scope

\* pinConversationAfterBindingTx and enforce_conversation_release_pin: a
\* first pin is the release the actor is routed to now.
Binds(q) ==
  LET c == question[q].conversation
      r == question[q].scope
  IN \/ pin[c] = r
     \/ pin[c] = None /\ Routed(c) = r

Bind(q) ==
  /\ At(q, "running") /\ Binds(q)
  /\ pin' = [pin EXCEPT ![question[q].conversation] = question[q].scope]
  /\ Moves(q, "bound")
  /\ UNCHANGED releaseVars

\* The run reaches an outcome: before it binds, since it cannot, or after.  It
\* is a sample of an open stage it was created in, and the samples may stop
\* the rollout.  An outcome in SHADOW is a sample once its repetition is.
Finish(q, stops) ==
  /\ question[q].pc \in {"running", "bound"}
  /\ LET r == question[q].scope
         sample == Open /\ question[q].inStage /\ r \in Compared
     IN /\ samples' = IF sample THEN samples \cup {r} ELSE samples
        /\ stops => /\ sample /\ rollout.state = "RUNNING"
                    /\ rollout.stage = "SHADOW" \/ rollout.candidate \in samples'
        /\ rollout' = IF stops THEN Closed("STOPPED") ELSE rollout
  /\ question' = [question EXCEPT ![q] = Idle]
  /\ UNCHANGED <<status, active, referenced, pin>>

Ask(q) ==
  \/ \E c \in Conversations : Route(q, c) \/ Answer(q, c)
  \/ RouteAnswer(q) \/ Keep(q) \/ Compare(q) \/ Confirm(q) \/ Decline(q) \/ Create(q) \/ Bind(q)
  \/ \E stops \in BOOLEAN : Finish(q, stops)

Next == Operate \/ \E q \in Questions : Ask(q)

Spec == Init /\ [][Next]_vars

----------------------------------------------------------------------------
\* The variables stay in their types; a question under way has a conversation
\* and a release, and only a candidate and control that differ are compared.
LifecycleTypeOK ==
  /\ status \in [Releases -> {"READY", "ACTIVE", "SUPERSEDED", "RETAINED", "RETIRED"}]
  /\ active \in Releases \cup {None}
  /\ rollout \in RolloutRecord
  /\ samples \subseteq Releases /\ referenced \subseteq Releases
  /\ pin \in [Conversations -> Releases \cup {None}]
  /\ question \in [Questions -> QuestionRecord]
  /\ \A q \in Questions : ~At(q, "idle") => question[q].conversation # None /\ question[q].scope # None

\* The domain serves one release: the one release_state names is the one
\* ACTIVE release, and an open rollout compares a READY candidate with it
\* (activate_release, RollbackRelease, StartReleaseRollout).
ServedReleaseIsCompared ==
  /\ \A r \in Releases : status[r] = "ACTIVE" <=> r = active
  /\ Open => rollout.control = active /\ status[rollout.candidate] = "READY"

\* A release that something still refers to can be run or rolled back to: it
\* is neither left SUPERSEDED, without a retention window, nor RETIRED
\* (release_retention.go, enforce_release_retention_lifecycle).
ReferencedReleaseIsKept ==
  \A r \in referenced : status[r] \in {"READY", "ACTIVE", "RETAINED"}

\* A conversation that answered from one release goes on with it: its pin
\* moves only from a release no longer served to the one that is, and only
\* when its owner confirms or answers a clarification, or the old release is
\* retired, whatever questions run beside each other while releases are rolled
\* out, replaced and rolled back (ResolvePinnedRelease, confirmReleaseDrift,
\* pinConversationAfterBindingTx).
PinMovesByOwner ==
  [][\A c \in Conversations : pin[c] # None /\ pin'[c] # pin[c] =>
       /\ Stale(pin[c]) /\ status[pin'[c]] = "ACTIVE"
       /\ \/ status[pin[c]] = "RETIRED"
          \/ \E q \in Questions : /\ question[q].pc \in {"drifted", "carried"}
                                  /\ question[q].conversation = c /\ question'[q] # question[q]]_vars

\* internal/askdata/http/question.go:1834: a new conversation is asked of the
\* release its actor's bucket gives: it is refused only when that release
\* changed since it was routed (CreateQuestion).
RoutedQuestionIsAdmitted ==
  [][\A q \in Questions :
       At(q, "new") /\ question'[q].pc = "refused" /\ pin[question[q].conversation] = None =>
         Routed(question[q].conversation) # question[q].scope]_vars

=============================================================================
