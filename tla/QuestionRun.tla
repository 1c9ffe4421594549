------------------------------ MODULE QuestionRun ------------------------------
(***************************************************************************)
(* Question runs: the durable state machine of internal/askdata/           *)
(* orchestrator, the lease a worker holds on a run, and the worker that    *)
(* drives it from RECEIVED to an outcome.                                  *)
(*                                                                         *)
(* A worker claims a run under a lease, renews the lease before every      *)
(* stage, and writes each stage with the version it last read.  A run that *)
(* is claimed again after it left RECEIVED is closed, never executed       *)
(* again.  Leases expire at any time; workers die, are shut down, or see a *)
(* database call fail, Mishaps times in all.                               *)
(*                                                                         *)
(* claim_question_run is one statement, but not one step: it finds its run *)
(* by the lease its snapshot shows, locks the run and not the lease, and   *)
(* then writes whatever lease it finds (READ COMMITTED).  Pollers whose    *)
(* statements overlap claim one run one after the other.                   *)
(*                                                                         *)
(* Abstractions.  A lease token is named by the attempt it was given for.  *)
(* The budget is its step count.  A link of the answer chain is named by   *)
(* the attempt that produced it.  A round of the model and a tool it asks  *)
(* for are each one step of the loop; the deterministic tools of a         *)
(* proposal are modelled in their order.                                   *)
(***************************************************************************)
EXTENDS Naturals, FiniteSets, Sequences

CONSTANTS
    Runs,      \* question runs, of one tenant
    Workers,   \* question workers
    Limit,     \* BudgetLimits.MaxSteps
    Mishaps,   \* bound: crashes, shutdowns and failed calls
    Delays,    \* bound: leases that a living worker loses
    NoRun      \* no run

ASSUME QuestionAssumption ==
    /\ NoRun \notin Runs
    /\ Limit \in Nat \ {0} /\ Mishaps \in Nat /\ Delays \in Nat
    /\ IsFiniteSet(Workers)

\* A run found at its third attempt is claimed no more, and each worker may have
\* found it before.
MaxAttempts == 3
LastAttempt == MaxAttempts - 1 + Cardinality(Workers)

VARIABLES
    row,      \* askdata.question_runs
    lease,    \* askdata.question_run_leases
    seen,     \* the run that a worker's claim under way has found in its snapshot
    worker,   \* what each worker's process remembers
    child,    \* what became of the answer to a run's clarification
    pinned,   \* the actor still holds the roles the run was created under
    ledger,   \* history: the calls really made for a run, and by which attempts
    mishaps,  \* history: how many mishaps there were
    delays    \* history: how many leases living workers lost

questionVars == <<row, lease, seen, worker, child, pinned, ledger, mishaps, delays>>

-----------------------------------------------------------------------------
(* The protocol: states, the links of the answer chain and their owners.   *)

Links == {"understanding", "binding", "graph", "ir", "plan", "result"}

\* The order in which Run.Hashes must be filled.
Below == [understanding |-> {}, binding |-> {"understanding"},
          graph |-> {"understanding", "binding"},
          ir |-> {"understanding", "binding", "graph"},
          plan |-> {"understanding", "binding", "graph", "ir"},
          result |-> {"understanding", "binding", "graph", "ir", "plan"}]

\* The state in which a link may first appear.
OwnerOf == [understanding |-> "UNDERSTANDING", binding |-> "BINDING",
            graph |-> "GRAPH_VALIDATING", ir |-> "IR_READY",
            plan |-> "PLAN_VALIDATING", result |-> "RESULT_VERIFYING"]

\* The states a worker passes without a model, and their successors; BINDING is
\* one of them once the loop has validated the proposed binding.
Hops == [RECEIVED |-> "AUTHORIZED", AUTHORIZED |-> "CONTEXT_READY",
         CONTEXT_READY |-> "UNDERSTANDING", BINDING |-> "GRAPH_VALIDATING",
         GRAPH_VALIDATING |-> "IR_READY", PLAN_VALIDATING |-> "EXECUTING",
         EXECUTING |-> "RESULT_VERIFYING"]

\* The states in which the model proposes, and where an accepted proposal leads.
Stages == [UNDERSTANDING |-> "RETRIEVING", RETRIEVING |-> "BINDING",
           IR_READY |-> "PLAN_VALIDATING"]

\* The tools the host runs on a proposal, in this order.
Pipeline == [UNDERSTANDING |-> <<>>, RETRIEVING |-> <<"resolve", "check">>,
             IR_READY |-> <<"compile", "validate", "execute">>]

\* The links a stage and each tool produce.
Proposed == [UNDERSTANDING |-> {"understanding"}, RETRIEVING |-> {"binding"}, IR_READY |-> {}]
Produced == [resolve |-> {"graph"}, check |-> {}, compile |-> {"ir", "plan"},
             validate |-> {}, execute |-> {"result"}]

\* The stages whose proposal the host can derive itself, without the model.
Derivable == {"UNDERSTANDING", "IR_READY"}

Clarification == {"CLARIFICATION_REQUIRED", "CLARIFICATION_EXPIRED"}
Terminal == Clarification \union {"OUT_OF_SCOPE", "ANSWERED", "BLOCKED"}
States == DOMAIN Hops \union DOMAIN Stages \union
          {"RESULT_VERIFYING", "ANSWER_VERIFYING"} \union Terminal

\* Everything a stage adds to the chain once it is accepted.
Won == [s \in DOMAIN Stages |->
          Proposed[s] \union UNION {Produced[Pipeline[s][i]] : i \in 1..Len(Pipeline[s])}]

\* The transitions of the state graph that are neither a hop nor a stage.
Others == {<<"RESULT_VERIFYING", "ANSWER_VERIFYING">>, <<"ANSWER_VERIFYING", "ANSWERED">>,
           <<"PLAN_VALIDATING", "BINDING">>, <<"RESULT_VERIFYING", "BINDING">>,
           <<"UNDERSTANDING", "OUT_OF_SCOPE">>, <<"BINDING", "OUT_OF_SCOPE">>}

\* CanTransition: where a state may lead, besides a checkpoint and BLOCKED.
Clarifiable == States \ (Terminal \union {"RECEIVED", "AUTHORIZED", "CONTEXT_READY", "EXECUTING"})
Leads(from) ==
    IF from \in Terminal THEN {} ELSE
      {from, "BLOCKED"}
      \union {Hops[s] : s \in {from} \intersect DOMAIN Hops}
      \union {Stages[s] : s \in {from} \intersect DOMAIN Stages}
      \union {a[2] : a \in {b \in Others : b[1] = from}}
      \union (IF from \in Clarifiable THEN {"CLARIFICATION_REQUIRED"} ELSE {})

Empty == [l \in Links |-> 0]
Received == [state |-> "RECEIVED", version |-> 1, used |-> 0, chain |-> Empty]
Free == [attempt |-> 0, held |-> FALSE, expired |-> FALSE]
\* A worker that remembers no more than the run it holds, and for which attempt.
Holding(step, r, n) ==
    [pc |-> step, run |-> r, attempt |-> n, state |-> "RECEIVED", version |-> 0,
     used |-> 0, links |-> {}, ran |-> 0, target |-> "RECEIVED", owed |-> 0]
Idle == Holding("idle", NoRun, 0)

QuestionInit ==
    /\ row = [r \in Runs |-> Received]
    /\ lease = [r \in Runs |-> Free]
    /\ seen = [w \in Workers |-> NoRun]
    /\ worker = [w \in Workers |-> Idle]
    /\ child = [r \in Runs |-> "none"]
    /\ pinned = [r \in Runs |-> TRUE]
    /\ ledger = [r \in Runs |-> [calls |-> 0, callers |-> {}, queried |-> {}]]
    /\ mishaps = 0
    /\ delays = 0

\* The pcs of drive, and all in which a worker holds a run.
Driving == {"resume", "stage", "loop", "asked", "tools", "compose", "record", "reload", "write"}
Closing == {"close", "block", "release"}

-----------------------------------------------------------------------------
(* What the database does.                                                 *)

Unbounded(n) == n <= MaxAttempts
Within(n) == n < MaxAttempts

OnlyFresh(r) == row[r].state = "RECEIVED" /\ (~lease[r].held \/ lease[r].expired) /\ Within(lease[r].attempt)
Claimable(r) ==
    /\ row[r].state \notin Terminal
    /\ ~lease[r].held \/ lease[r].expired
    /\ Within(lease[r].attempt)

Restarted(r) == IF row[r].state \in {"RECEIVED", "RETRIEVING"} THEN "resume" ELSE "close"
Mode(r) == IF row[r].state = "RECEIVED" THEN "resume" ELSE "close"

TokenOnly(w) ==
    /\ worker[w].run \in Runs
    /\ lease[worker[w].run].held
\* The holder of a token that was not replaced and has not expired.
Alive(w) ==
    LET m == worker[w] IN
    /\ m.run \in Runs
    /\ lease[m.run].held /\ ~lease[m.run].expired
    /\ lease[m.run].attempt = m.attempt

\* updatesFor: the links a transition offers, those of its two states.
Offered(m) == {l \in m.links : OwnerOf[l] \in {m.state, m.target}}
Chained(m, chain) == [l \in Links |-> IF l \in Offered(m) THEN m.attempt ELSE chain[l]]

\* No link is overwritten, none appears before those below it, and an answer
\* has them all.
ChainHolds(m, chain) ==
    /\ \A l \in Offered(m) : chain[l] \in {0, m.attempt}
    /\ LET filled == {l \in Links : Chained(m, chain)[l] # 0} IN
       /\ \A l \in filled : Below[l] \subseteq filled
       /\ m.target = "ANSWERED" => filled = Links

\* Apply and updateRunTx: the write of worker w is accepted.
Applies(w) ==
    LET m == worker[w]  current == row[m.run] IN
    /\ m.version = current.version
    /\ m.target \in Leads(current.state)
    /\ current.used <= m.used /\ m.used <= Limit
    /\ ChainHolds(m, current.chain)

Applied(w) ==
    LET m == worker[w]  current == row[m.run] IN
    [row EXCEPT ![m.run] =
       [state |-> m.target, version |-> current.version + 1, used |-> m.used,
        chain |-> Chained(m, current.chain)]]

-----------------------------------------------------------------------------
(* The worker.                                                             *)

Becomes(w, m) == worker' = [worker EXCEPT ![w] = m]
Goes(w, step) == Becomes(w, [worker[w] EXCEPT !.pc = step])
\* What a worker needs no more to close or release its run is forgotten.
Only(m, step) == Holding(step, m.run, m.attempt)
Leaves(w, step) == Becomes(w, Only(worker[w], step))
Aims(w, target) == Becomes(w, [worker[w] EXCEPT !.pc = "write", !.target = target])
Reads(m, r) == [m EXCEPT !.state = row[r].state, !.version = row[r].version, !.used = row[r].used]

At(w, pc) == worker[w].pc = pc
OnlyWorker == UNCHANGED <<row, lease, seen, child, pinned, ledger, mishaps, delays>>

\* A living worker loses its lease.
Delay == delays < Delays /\ delays' = delays + 1
Loses(r) == IF \E w \in Workers : worker[w].run = r /\ Alive(w) THEN Delay ELSE UNCHANGED delays

\* The claim's snapshot shows a run nobody holds.
Look(w, r) ==
    /\ At(w, "idle") /\ seen[w] = NoRun
    /\ Claimable(r)
    /\ seen' = [seen EXCEPT ![w] = r]
    /\ UNCHANGED <<row, lease, worker, child, pinned, ledger, mishaps, delays>>

\* It locks the run, reads its state again if it has changed, and upserts the
\* lease without asking whose it is by now.
Claim(w, r) ==
    /\ At(w, "idle") /\ seen[w] = r
    /\ row[r].state \notin Terminal
    /\ Loses(r)
    /\ lease' = [lease EXCEPT ![r] = [attempt |-> @.attempt + 1, held |-> TRUE, expired |-> FALSE]]
    /\ Becomes(w, Holding(Mode(r), r, lease[r].attempt + 1))
    /\ seen' = [seen EXCEPT ![w] = NoRun]
    /\ UNCHANGED <<row, child, pinned, ledger, mishaps>>

\* The run has come to its outcome in the meantime.
Miss(w, r) ==
    /\ seen[w] = r
    /\ row[r].state \in Terminal
    /\ seen' = [seen EXCEPT ![w] = NoRun]
    /\ UNCHANGED <<row, lease, worker, child, pinned, ledger, mishaps, delays>>

\* The scope is rebuilt from the actor's present roles: another one is refused.
Resume(w) ==
    LET m == worker[w] IN
    /\ At(w, "resume")
    /\ IF pinned[m.run] THEN Becomes(w, [Reads(m, m.run) EXCEPT !.pc = "stage"]) ELSE Leaves(w, "release")
    /\ OnlyWorker

\* The head of drive's loop: stop at an outcome or when the lease is lost ...
Stop(w) ==
    /\ At(w, "stage")
    /\ worker[w].state \in Terminal \/ ~Alive(w)
    /\ Leaves(w, "release")
    /\ OnlyWorker

\* ... else make a hop, refuse a question out of scope ...
Hop(w) ==
    LET m == worker[w] IN
    /\ At(w, "stage") /\ Alive(w)
    /\ m.state \in DOMAIN Hops
    /\ Aims(w, Hops[m.state])
    /\ OnlyWorker

OutOfScope(w) ==
    /\ At(w, "stage") /\ Alive(w)
    /\ worker[w].state = "UNDERSTANDING"
    /\ Aims(w, "OUT_OF_SCOPE")
    /\ OnlyWorker

\* ... run the model, on the run as it is now: in another state the loop fails ...
Enter(w) ==
    LET m == worker[w] IN
    /\ At(w, "stage") /\ Alive(w)
    /\ m.state \in DOMAIN Stages
    /\ IF row[m.run].state = m.state
         THEN Becomes(w, [m EXCEPT !.pc = "loop", !.used = row[m.run].used, !.ran = 0])
         ELSE Aims(w, "BLOCKED")
    /\ OnlyWorker

\* ... or compose the answer.
Finalize(w) ==
    LET m == worker[w] IN
    /\ At(w, "stage") /\ Alive(w)
    /\ m.state = "RESULT_VERIFYING"
    /\ IF row[m.run].state = m.state
         THEN Becomes(w, [Reads(m, m.run) EXCEPT !.pc = "write", !.target = "ANSWER_VERIFYING"])
         ELSE Leaves(w, "reload")
    /\ OnlyWorker

\* One more call is made for the run, and charged in memory.
Charged(w, queries) ==
    LET m == worker[w] IN
    /\ m.used < Limit
    /\ ledger' = [ledger EXCEPT ![m.run] =
                    [calls |-> @.calls + 1, callers |-> @.callers \union {m.attempt},
                     queried |-> @.queried \union queries]]
    /\ UNCHANGED <<row, lease, seen, child, pinned, mishaps, delays>>

\* A round of the model, or a tool it asked for.
Think(w) ==
    LET m == worker[w] IN
    /\ m.pc \in {"loop", "asked"}
    /\ Charged(w, {})
    /\ Becomes(w, [m EXCEPT !.pc = "asked", !.used = @ + 1])

\* A proposal, the model's or one the host derives: its tools run next.
Propose(w) ==
    LET m == worker[w] IN
    /\ At(w, "asked") \/ (At(w, "loop") /\ m.state \in Derivable)
    /\ Goes(w, "tools")
    /\ OnlyWorker

LastToolAssumed(w) ==
    LET m == worker[w] IN
    /\ At(w, "tools")
    /\ m.ran < Len(Pipeline[m.state])
    /\ Charged(w, {})
    /\ Becomes(w, [m EXCEPT !.used = @ + 1, !.ran = IF @ = 1 THEN Len(Pipeline[m.state]) ELSE @ + 1])
RunTool(w) ==
    LET m == worker[w]  tool == Pipeline[m.state][m.ran + 1] IN
    /\ At(w, "tools")
    /\ m.ran < Len(Pipeline[m.state])
    /\ Charged(w, IF tool = "execute" THEN {m.attempt} ELSE {})
    /\ Becomes(w, [m EXCEPT !.used = @ + 1, !.ran = @ + 1])

\* The proposal is accepted, and its links are observed; or its confidence is too
\* low, and CheckpointLoop refuses the clarification it is turned into.
Accept(w) ==
    LET m == worker[w] IN
    /\ At(w, "tools")
    /\ m.ran = Len(Pipeline[m.state])
    /\ \/ Becomes(w, [m EXCEPT !.pc = "write", !.target = Stages[m.state], !.ran = 0,
                               !.links = @ \union Won[m.state]])
       \/ Leaves(w, "close")
    /\ OnlyWorker

\* The model asks the user.
Clarify(w) ==
    /\ At(w, "asked")
    /\ Aims(w, "CLARIFICATION_REQUIRED")
    /\ OnlyWorker

\* The model blocks, or the loop fails: no budget left, a tool that fails.
GiveUp(w) ==
    /\ worker[w].pc \in {"loop", "asked", "tools"}
    /\ Aims(w, "BLOCKED")
    /\ OnlyWorker

\* Up to two attempts at the answer, all refused or the last one verified.
Compose(w) ==
    LET m == worker[w] IN
    /\ At(w, "compose")
    /\ \E n \in {k \in 0..2 : m.used + k <= Limit} : \E failed \in {k \in 0..n : k + 1 >= n} :
         /\ ledger' = [ledger EXCEPT ![m.run].calls = @ + n,
                         ![m.run].callers = @ \union (IF n > 0 THEN {m.attempt} ELSE {})]
         /\ Becomes(w, [m EXCEPT !.pc = "record", !.ran = failed, !.owed = n])
    /\ UNCHANGED <<row, lease, seen, child, pinned, mishaps, delays>>

ComposeFails(w) ==
    /\ At(w, "compose")
    /\ Leaves(w, "reload")
    /\ OnlyWorker

LastIsFree(w) ==
    LET m == worker[w] IN
    /\ At(w, "record")
    /\ Becomes(w, IF m.ran > 0
         THEN [m EXCEPT !.pc = "write", !.target = "ANSWER_VERIFYING",
                        !.used = @ + 1, !.ran = @ - 1, !.owed = @ - 1]
         ELSE [m EXCEPT !.pc = "write", !.target = "ANSWERED", !.owed = 0])
    /\ OnlyWorker
\* Every refused attempt is a checkpoint that charges it; the verified one is
\* charged with the answer.
Record(w) ==
    LET m == worker[w] IN
    /\ At(w, "record")
    /\ Becomes(w, IF m.ran > 0
         THEN [m EXCEPT !.pc = "write", !.target = "ANSWER_VERIFYING",
                        !.used = @ + 1, !.ran = @ - 1, !.owed = @ - 1]
         ELSE [m EXCEPT !.pc = "write", !.target = "ANSWERED", !.used = @ + m.owed, !.owed = 0])
    /\ OnlyWorker

\* Transition and CheckpointLoop, and where drive continues.
Continues(m) ==
    CASE m.state = "RESULT_VERIFYING" -> "compose"
      [] m.state = "ANSWER_VERIFYING" -> "record"
      [] OTHER -> "stage"

Write(w) ==
    LET m == worker[w] IN
    /\ At(w, "write")
    /\ Applies(w)
    /\ row' = Applied(w)
    /\ Becomes(w, IF m.target \in Terminal THEN Only(m, "release")
                  ELSE [m EXCEPT !.pc = Continues(m), !.state = m.target, !.version = @ + 1])
    /\ UNCHANGED <<lease, seen, child, pinned, ledger, mishaps, delays>>

Answering(m) == m.state \in {"RESULT_VERIFYING", "ANSWER_VERIFYING"} /\ m.target # "BLOCKED"

WriteRefused(w) ==
    /\ At(w, "write")
    /\ ~Applies(w)
    /\ Leaves(w, IF Answering(worker[w]) THEN "reload" ELSE "close")
    /\ OnlyWorker

\* The projection of the pinned release is not what it was.
ProjectionRefused(w) ==
    /\ At(w, "write")
    /\ Applies(w)
    /\ worker[w].state = "AUTHORIZED" /\ worker[w].target = "CONTEXT_READY"
    /\ Leaves(w, "close")
    /\ OnlyWorker

\* Another run has pinned the conversation to its release: no failClosed.
PinRefused(w) ==
    /\ At(w, "write")
    /\ Applies(w)
    /\ worker[w].state = "BINDING" /\ worker[w].target = "GRAPH_VALIDATING"
    /\ Leaves(w, "release")
    /\ OnlyWorker

\* FinalizeAnswer failed: close what the run has become.
Reload(w) ==
    LET m == worker[w]  r == worker[w].run IN
    /\ At(w, "reload")
    /\ Becomes(w, IF row[r].state \in Terminal
         THEN Only(m, "release")
         ELSE [Reads(m, r) EXCEPT !.pc = "write", !.target = "BLOCKED"])
    /\ OnlyWorker

\* failClosed: of the run as it is now, with the budget it has recorded.
Close(w) ==
    LET m == worker[w]  r == worker[w].run IN
    /\ At(w, "close")
    /\ Becomes(w, IF row[r].state \in Terminal \/ ~pinned[r]
         THEN Only(m, "release")
         ELSE [Reads(m, r) EXCEPT !.pc = "block", !.target = "BLOCKED"])
    /\ OnlyWorker

Block(w) ==
    /\ At(w, "block")
    /\ row' = IF Applies(w) THEN Applied(w) ELSE row
    /\ Leaves(w, "release")
    /\ UNCHANGED <<lease, seen, child, pinned, ledger, mishaps, delays>>

\* The deferred Release, which may fail; it matches the token alone.
Release(w) ==
    LET m == worker[w]  r == worker[w].run IN
    /\ At(w, "release")
    /\ \/ UNCHANGED lease
       \/ /\ lease[r].held /\ lease[r].attempt = m.attempt
          /\ lease' = [lease EXCEPT ![r] = [@ EXCEPT !.held = FALSE, !.expired = FALSE]]
    /\ Becomes(w, Idle)
    /\ UNCHANGED <<row, seen, child, pinned, ledger, mishaps, delays>>

\* The background heartbeat finds the lease lost and cancels drive.
LeaseLost(w) ==
    /\ worker[w].pc \in Driving
    /\ ~Alive(w)
    /\ Leaves(w, "release")
    /\ OnlyWorker

-----------------------------------------------------------------------------
(* What goes wrong, and what else happens.                                 *)

Mishap == mishaps < Mishaps /\ mishaps' = mishaps + 1 /\ UNCHANGED delays

\* The process dies.
Crash(w) ==
    /\ ~At(w, "idle")
    /\ Mishap
    /\ Becomes(w, Idle)
    /\ UNCHANGED <<row, lease, seen, child, pinned, ledger>>

\* A database call fails, after its commit perhaps, or the worker is shut down.
Fault(w) ==
    LET m == worker[w] IN
    /\ m.pc \in Driving \union {"close", "block"}
    /\ Mishap
    /\ UNCHANGED row \/ (m.pc \in {"write", "block"} /\ Applies(w) /\ row' = Applied(w))
    /\ Leaves(w, "release") \/ (m.pc \in Driving /\ Leaves(w, "close"))
    /\ UNCHANGED <<lease, seen, child, pinned, ledger>>

\* A lease is not renewed in time: its worker is gone, or only slow.
Expire(r) ==
    /\ lease[r].held /\ ~lease[r].expired
    /\ Loses(r)
    /\ lease' = [lease EXCEPT ![r].expired = TRUE]
    /\ UNCHANGED <<row, seen, worker, child, pinned, ledger, mishaps>>

\* The actor's roles change.
RolesChange(r) ==
    /\ pinned[r]
    /\ pinned' = [pinned EXCEPT ![r] = FALSE]
    /\ UNCHANGED <<row, lease, seen, worker, child, ledger, mishaps, delays>>

OnceAsked(r) ==
    /\ row[r].state \in {"CLARIFICATION_REQUIRED", "BLOCKED"}
    /\ row' = [row EXCEPT ![r].state = "CLARIFICATION_EXPIRED", ![r].version = @ + 1]
    /\ UNCHANGED <<lease, seen, worker, child, pinned, ledger, mishaps, delays>>
\* The deadline of a clarification passes: ExpireClarification and its worker.
ClarificationExpires(r) ==
    /\ row[r].state = "CLARIFICATION_REQUIRED"
    /\ row' = [row EXCEPT ![r].state = "CLARIFICATION_EXPIRED", ![r].version = @ + 1]
    /\ UNCHANGED <<lease, seen, worker, child, pinned, ledger, mishaps, delays>>

\* The user answers: a child run with a budget of its own, which the trigger on
\* question_runs compares with what its parent has consumed.
ResumesBudget(r) == row[r].used = 0
SubmitClarification(r) ==
    /\ row[r].state = "CLARIFICATION_REQUIRED" /\ child[r] = "none"
    /\ child' = [child EXCEPT ![r] = IF ResumesBudget(r) THEN "created" ELSE "refused"]
    /\ UNCHANGED <<row, lease, seen, worker, pinned, ledger, mishaps, delays>>

Drive(w) ==
    \/ Resume(w) \/ Stop(w) \/ Hop(w) \/ OutOfScope(w) \/ Enter(w) \/ Finalize(w)
    \/ Think(w) \/ Propose(w) \/ RunTool(w) \/ Accept(w) \/ Clarify(w) \/ GiveUp(w)
    \/ Compose(w) \/ ComposeFails(w) \/ Record(w) \/ Reload(w)
    \/ Write(w) \/ WriteRefused(w) \/ ProjectionRefused(w) \/ PinRefused(w)

Work(w) == Drive(w) \/ Close(w) \/ Block(w) \/ Release(w) \/ LeaseLost(w)

QuestionNext ==
    \/ \E w \in Workers :
         Work(w) \/ Crash(w) \/ Fault(w) \/ \E r \in Runs : Look(w, r) \/ Claim(w, r) \/ Miss(w, r)
    \/ \E r \in Runs : Expire(r) \/ RolesChange(r)
         \/ ClarificationExpires(r) \/ SubmitClarification(r)

QuestionSpec == QuestionInit /\ [][QuestionNext]_questionVars

\* A lease that nobody renews expires; workers poll for runs and make progress.
Unattended(r) == ~(\E w \in Workers : worker[w].run = r /\ Alive(w)) /\ Expire(r)

FairQuestionSpec ==
    /\ QuestionSpec
    /\ \A w \in Workers : WF_questionVars(Work(w)) /\ \A r \in Runs : WF_questionVars(Look(w, r))
    /\ \A w \in Workers : \A r \in Runs : WF_questionVars(Claim(w, r) \/ Miss(w, r))
    /\ \A r \in Runs : WF_questionVars(Unattended(r))

-----------------------------------------------------------------------------
(* Properties.                                                             *)

WorkerType ==
    [pc : Driving \union Closing \union {"idle"}, run : Runs \union {NoRun}, attempt : 0..LastAttempt,
     state : States, version : Nat, used : 0..Limit, links : SUBSET Links, ran : 0..3,
     target : States, owed : 0..2]

QuestionTypeOK ==
    /\ row \in [Runs -> [state : States, version : Nat \ {0}, used : 0..Limit,
                         chain : [Links -> 0..LastAttempt]]]
    /\ lease \in [Runs -> [attempt : 0..LastAttempt, held : BOOLEAN, expired : BOOLEAN]]
    /\ seen \in [Workers -> Runs \union {NoRun}]
    /\ worker \in [Workers -> WorkerType]
    /\ \A w \in Workers : worker[w].pc # "idle" <=> worker[w].run \in Runs
    /\ child \in [Runs -> {"none", "created", "refused"}]
    /\ pinned \in [Runs -> BOOLEAN]
    /\ ledger \in [Runs -> [calls : Nat, callers : SUBSET (1..LastAttempt),
                            queried : SUBSET (1..LastAttempt)]]
    /\ mishaps \in 0..Mishaps /\ delays \in 0..Delays

\* However leases expire and workers die, one attempt alone calls the model and
\* the tools for a run: an abandoned run is closed, never executed again.
ExecutedOnce == \A r \in Runs : Cardinality(ledger[r].callers) <= 1

\* An answer rests on work really done: every link of its chain, the query's
\* result among them, was produced by the one attempt that executed the query.
AnswerIsEarned ==
    \A r \in Runs : row[r].state = "ANSWERED" =>
        \E a \in ledger[r].queried : \A l \in Links : row[r].chain[l] = a

\* An outcome that was reached by executing the run accounts for every call made
\* for it, whoever made it: none is lost, none is charged twice.
OutcomeIsPaid ==
    \A r \in Runs : row[r].state \in Terminal \ {"BLOCKED"} => row[r].used = ledger[r].calls

\* And the budget holds for the calls themselves, not only for what is recorded.
CallsWithinLimit == \A r \in Runs : ledger[r].calls <= Limit

\* What a run promises: see QuestionPromise.
OutcomeOf(state) ==
    CASE state = "ANSWERED" -> "answered"
      [] state = "CLARIFICATION_REQUIRED" -> "clarify"
      [] state = "CLARIFICATION_EXPIRED" -> "lapsed"
      [] state \in {"BLOCKED", "OUT_OF_SCOPE"} -> "refused"
      [] OTHER -> "open"

Promise == INSTANCE QuestionPromise WITH
    outcome <- [r \in Runs |-> OutcomeOf(row[r].state)],
    spent <- [r \in Runs |-> row[r].used]

KeepsPromise == Promise!PromiseSpec

\* As long as its actor keeps the roles it was asked under and no worker loses a
\* lease it could still use, a run that meets few mishaps comes to an outcome.
RunSettles ==
    \A r \in Runs : TRUE ~> (row[r].state \in Terminal \/ ~pinned[r] \/ delays > 0)

\* An open clarification can be answered.
ClarificationAnswerable == \A r \in Runs : child[r] # "refused"
=============================================================================
