--------------------------- MODULE QuestionRun_proofs ---------------------------
(***************************************************************************)
(* Proofs about QuestionRun, for any runs, workers and limits, and for any *)
(* number of mishaps and lost leases.                                      *)
(***************************************************************************)
EXTENDS QuestionRun, FiniteSetTheorems, TLAPS

-----------------------------------------------------------------------------
(* The protocol.                                                           *)

LEMMA HopStates ==
  /\ DOMAIN Hops = {"RECEIVED", "AUTHORIZED", "CONTEXT_READY", "BINDING",
                    "GRAPH_VALIDATING", "PLAN_VALIDATING", "EXECUTING"}
  /\ \A s \in DOMAIN Hops : Hops[s] \in States \ {"RECEIVED"}
  BY DEF Hops, States, Stages, Terminal

LEMMA StageStates ==
  /\ DOMAIN Stages = {"UNDERSTANDING", "RETRIEVING", "IR_READY"}
  /\ \A s \in DOMAIN Stages : Stages[s] \in States \ {"RECEIVED"}
  BY DEF Hops, States, Stages, Terminal

LEMMA NamedStates ==
  {"RECEIVED", "RESULT_VERIFYING", "ANSWER_VERIFYING", "ANSWERED", "BLOCKED", "OUT_OF_SCOPE",
   "CLARIFICATION_REQUIRED", "CLARIFICATION_EXPIRED"} \subseteq States
  BY DEF States, Terminal, Clarification, Hops

LEMMA PipelineLength == \A s \in DOMAIN Stages : Len(Pipeline[s]) \in 0..3
  BY StageStates DEF Pipeline

LEMMA WonLinks == \A s \in DOMAIN Stages : Won[s] \subseteq Links
  <1>1. DOMAIN Produced = {"resolve", "check", "compile", "validate", "execute"}
        /\ \A tool \in DOMAIN Produced : Produced[tool] \subseteq Links
    BY DEF Produced, Links
  <1>2. \A s \in DOMAIN Stages : \A i \in 1..Len(Pipeline[s]) : Pipeline[s][i] \in DOMAIN Produced
    BY <1>1, StageStates DEF Pipeline
  <1>3. \A s \in DOMAIN Stages : Proposed[s] \subseteq Links
    BY StageStates DEF Proposed, Links
  <1> QED
    BY <1>1, <1>2, <1>3 DEF Won

\* The query's result comes from the last tool of the last stage.
LEMMA ResultOfQuery ==
  /\ Len(Pipeline["IR_READY"]) = 3 /\ Pipeline["IR_READY"][3] = "execute"
  /\ \A s \in DOMAIN Stages : "result" \in Won[s] => s = "IR_READY"
  <1>1. \A s \in {"UNDERSTANDING", "RETRIEVING"} : \A i \in 1..Len(Pipeline[s]) :
          Pipeline[s][i] \in {"resolve", "check"}
    BY DEF Pipeline
  <1>2. \A tool \in {"resolve", "check"} : "result" \notin Produced[tool]
    BY DEF Produced
  <1>3. \A s \in {"UNDERSTANDING", "RETRIEVING"} : "result" \notin Proposed[s]
    BY DEF Proposed
  <1>4. \A s \in {"UNDERSTANDING", "RETRIEVING"} : "result" \notin Won[s]
    BY <1>1, <1>2, <1>3, StageStates DEF Won
  <1> QED
    BY <1>4, StageStates DEF Pipeline

\* Nothing leads back to RECEIVED or lets a clarification expire, and nothing
\* leads on from an outcome.
LEMMA LeadsOn ==
  \A from \in States :
    /\ "RECEIVED" \in Leads(from) => from = "RECEIVED"
    /\ "CLARIFICATION_EXPIRED" \notin Leads(from)
    /\ from \in Terminal => Leads(from) = {}
    /\ from = "RECEIVED" => Leads(from) \intersect Terminal \subseteq {"BLOCKED"}
  <1>1. \A a \in Others : a[2] \notin {"RECEIVED", "CLARIFICATION_EXPIRED"}
    BY DEF Others
  <1>2. /\ \A s \in DOMAIN Hops : Hops[s] # "CLARIFICATION_EXPIRED"
        /\ \A s \in DOMAIN Stages : Stages[s] # "CLARIFICATION_EXPIRED"
    BY DEF Hops, Stages
  <1>3. "CLARIFICATION_EXPIRED" \in Terminal
    BY DEF Terminal, Clarification
  <1>4. Leads("RECEIVED") \subseteq {"RECEIVED", "BLOCKED", "AUTHORIZED"}
    <2>1. "RECEIVED" \notin DOMAIN Stages /\ Hops["RECEIVED"] = "AUTHORIZED"
      BY StageStates DEF Hops
    <2>2. \A a \in Others : a[1] # "RECEIVED"
      BY DEF Others
    <2> QED
      BY <2>1, <2>2, HopStates DEF Leads, Clarifiable
  <1>5. "RECEIVED" \notin Terminal /\ "AUTHORIZED" \notin Terminal
    BY DEF Terminal, Clarification
  <1> QED
    BY <1>1, <1>2, <1>3, <1>4, <1>5, HopStates, StageStates DEF Leads

-----------------------------------------------------------------------------
(* The invariant.                                                          *)

Tools == {"loop", "asked", "tools"}

\* The worker records what became of the attempts at the answer.
Recording(m) ==
  m.pc = "record" \/ (m.pc = "write" /\ m.state = "ANSWER_VERIFYING" /\ m.target # "BLOCKED")

\* What a worker remembers is of one piece: its calls, those it has yet to
\* record among them, are within the limit, and it is in a state its step is for.
Sound(m) ==
  /\ m.used + m.owed <= Limit
  /\ m.pc # "idle" => m.attempt # 0
  /\ m.pc = "idle" <=> m.run = NoRun
  /\ m.owed # 0 => m.pc = "record" \/ (m.pc = "write" /\ m.state = "ANSWER_VERIFYING")
  /\ Recording(m) => m.ran <= m.owed
  /\ m.pc \in {"compose", "record"} => m.state = "ANSWER_VERIFYING"
  /\ m.pc = "write" /\ m.state = "RESULT_VERIFYING" => m.target \in {"ANSWER_VERIFYING", "BLOCKED"}
  /\ m.pc = "write" /\ m.state = "ANSWER_VERIFYING" =>
       m.target \in {"ANSWER_VERIFYING", "ANSWERED", "BLOCKED"}
  /\ m.pc \in Tools => m.state \in DOMAIN Stages
  /\ m.pc \in Closing \union {"resume", "reload"} => m.links = {}
  /\ m.pc = "block" => m.target = "BLOCKED"
  /\ m.pc = "write" /\ m.target = "ANSWERED" => m.owed = 0
  /\ m.pc = "write" => m.target # "RECEIVED"
  /\ m.state = "RECEIVED" => m.links = {}

\* Finitely many workers may each add an attempt to those the limit counts.
LEMMA LastAttemptNat == LastAttempt \in Nat
  <1>1. Cardinality(Workers) \in Nat
    BY QuestionAssumption, FS_CardinalityType
  <1> QED
    BY <1>1 DEF LastAttempt, MaxAttempts

USE LastAttemptNat

RowType ==
  [Runs -> [state : States, version : Nat \ {0}, used : 0..Limit, chain : [Links -> 0..LastAttempt]]]
LeaseType == [Runs -> [attempt : 0..LastAttempt, held : BOOLEAN, expired : BOOLEAN]]
LedgerType ==
  [Runs -> [calls : Nat, callers : SUBSET (1..LastAttempt), queried : SUBSET (1..LastAttempt)]]

\* A worker that has read its run in a later state than RECEIVED knows that the
\* run has left it: it never returns there.
Departed ==
  \A w \in Workers : worker[w].state # "RECEIVED" =>
    worker[w].run \in Runs /\ row[worker[w].run].state # "RECEIVED"

Typed ==
  /\ row \in RowType
  /\ lease \in LeaseType
  /\ worker \in [Workers -> WorkerType]
  /\ \A w \in Workers : Sound(worker[w])
  /\ Departed
  /\ child \in [Runs -> {"none", "created", "refused"}]
  /\ pinned \in [Runs -> BOOLEAN]
  /\ ledger \in LedgerType
  /\ mishaps \in 0..Mishaps /\ delays \in 0..Delays

\* The worker makes calls for its run, or is about to write what came of them.
Calling(m) == m.pc \in Tools \union {"compose", "record"}
Executing(m) ==
  Calling(m) \/
  (m.pc = "write" /\ m.state # "RECEIVED" /\ (m.target # "BLOCKED" \/ m.links # {}))

\* What a worker remembers of the budget fits what its run has recorded and what
\* was really spent on it: while it calls, all that was spent; and as long as no
\* other attempt has made calls, also what it is going to write.
Fits(m, current, calls, callers) ==
  /\ m.version <= current.version
  /\ m.version = current.version =>
       m.state = current.state /\ (m.pc = "stage" => m.used = current.used)
  /\ m.used + m.owed <= calls
  /\ Calling(m) => calls = m.used + m.owed /\ current.state \notin Terminal \ {"BLOCKED"}
  /\ callers \subseteq {m.attempt} =>
       /\ m.pc \in {"resume", "stage"} => calls = current.used
       /\ m.pc = "write" /\ m.target # "BLOCKED" /\ m.version = current.version =>
            calls = m.used + m.owed

Balance(current, calls, callers) ==
  /\ current.used <= calls /\ calls <= Limit
  /\ callers = {} => calls = 0
  /\ current.state \in Terminal \ {"BLOCKED"} => current.used = calls

\* Whoever has, or can win, the link of the query's result has made the query.
Queried(m, queried) ==
  /\ m.pc \in Tools /\ m.state = "IR_READY" /\ m.ran = 3 => m.attempt \in queried
  /\ "result" \in m.links => m.attempt \in queried

\* The run was executed before any attempt after a claimed it, so all those only
\* close it.
LastDriven(r, a) ==
  /\ row[r].state # "RECEIVED"
  /\ \A w \in Workers : worker[w].run = r /\ worker[w].attempt > a => worker[w].pc \notin Driving

OneToken ==
  \A w \in Workers : worker[w].run \in Runs =>
    /\ worker[w].attempt <= lease[worker[w].run].attempt
    /\ \A v \in Workers \ {w} : worker[v].run = worker[w].run => worker[v].attempt # worker[w].attempt

\* The attempts that made calls for a run, or produced a link of its answer.
Actors(r) ==
  {a \in 1..LastAttempt : a \in ledger[r].callers \/ \E l \in Links : row[r].chain[l] = a}

ExecutorIsLast ==
  \A w \in Workers : Executing(worker[w]) =>
    /\ LastDriven(worker[w].run, worker[w].attempt)
    /\ Actors(worker[w].run) \subseteq {worker[w].attempt}

ActorsAreLast ==
  \A r \in Runs : \A a \in Actors(r) :
    /\ a <= lease[r].attempt
    /\ LastDriven(r, a)
    /\ \A b \in Actors(r) : a = b

Exec == OneToken /\ ExecutorIsLast /\ ActorsAreLast

\* The books of every run and of every worker are in order.
Books ==
  /\ \A r \in Runs : Balance(row[r], ledger[r].calls, ledger[r].callers)
  /\ \A w \in Workers : worker[w].pc # "idle" =>
       LET r == worker[w].run IN Fits(worker[w], row[r], ledger[r].calls, ledger[r].callers)

\* A link of the query's result is of an attempt that made the query, and an
\* answered run has every link.
Earned ==
  /\ \A w \in Workers : worker[w].pc # "idle" =>
       Queried(worker[w], ledger[worker[w].run].queried)
  /\ \A r \in Runs : row[r].chain["result"] \in ledger[r].queried \union {0}
  /\ \A r \in Runs : row[r].state = "ANSWERED" => \A l \in Links : row[r].chain[l] # 0

\* The workers whose claim under way has found the run r.
Lookers(r) == {w \in Workers : seen[w] = r}

\* A run is found while less than MaxAttempts claims have been made, and each of
\* those who have found it will make one more at most.
Looks ==
  /\ seen \in [Workers -> Runs \union {NoRun}]
  /\ \A r \in Runs : lease[r].attempt + Cardinality(Lookers(r)) <= LastAttempt

QuestionInv == Typed /\ Looks /\ Exec /\ Books /\ Earned

-----------------------------------------------------------------------------
(* A worker moves.                                                         *)

\* The worker has its run's newest lease and the run has left RECEIVED.
Enters(w) ==
  /\ Alive(w) /\ worker[w].pc \in Driving
  /\ row[worker[w].run].state # "RECEIVED"

\* The worker's books fit its run, and nobody else has made calls for it if this
\* worker makes them or may begin to.
FitsRun(w) ==
  LET r == worker[w].run IN
    /\ Fits(worker[w], row[r], ledger[r].calls, ledger[r].callers)
    /\ Balance(row[r], ledger[r].calls, ledger[r].callers)
    /\ Executing(worker[w]) \/ Enters(w) => ledger[r].callers \subseteq {worker[w].attempt}

\* Its next record is of its claim, or of none; nobody goes back to driving, nobody
\* executes who was not executing or may not begin to, and its books stay in order.
MovesTo(w, m) ==
  LET o == worker[w]  r == worker[w].run IN
  /\ m \in WorkerType /\ Sound(m)
  /\ m.pc # "idle" => m.run = r /\ m.attempt = o.attempt
  /\ m.pc \in Driving => o.pc \in Driving
  /\ Executing(m) => Executing(o) \/ Enters(w)
  /\ m.state # "RECEIVED" =>
       m.pc # "idle" /\ (m.state = o.state \/ row'[r].state # "RECEIVED")
  /\ m.pc # "idle" =>
       /\ FitsRun(w) => Fits(m, row'[r], ledger'[r].calls, ledger'[r].callers)
       /\ Queried(o, ledger[r].queried) => Queried(m, ledger'[r].queried)

Moves(w) == \E m \in WorkerType : worker' = [worker EXCEPT ![w] = m] /\ MovesTo(w, m)

\* The types of all a worker under way has to do with.
LEMMA UnderWay ==
  ASSUME Typed, NEW w \in Workers, worker[w].pc # "idle"
  PROVE  /\ worker[w] \in WorkerType /\ worker[w].run \in Runs
         /\ worker[w].attempt \in 1..LastAttempt /\ Sound(worker[w])
         /\ row[worker[w].run].state \in States
         /\ row[worker[w].run].used \in 0..Limit
         /\ row[worker[w].run].version \in Nat
         /\ row[worker[w].run].chain \in [Links -> 0..LastAttempt]
  BY QuestionAssumption DEF Typed, Sound, WorkerType, RowType

\* The numbers in its books.
LEMMA Numbers ==
  ASSUME Typed, NEW w \in Workers, worker[w].pc # "idle"
  PROVE  /\ worker[w].version \in Nat /\ worker[w].used \in Nat /\ worker[w].owed \in Nat
         /\ worker[w].ran \in Nat /\ Limit \in Nat
         /\ row[worker[w].run].version \in Nat \ {0} /\ row[worker[w].run].used \in Nat
         /\ ledger[worker[w].run].calls \in Nat
         /\ ledger[worker[w].run].callers \subseteq 1..LastAttempt
         /\ ledger[worker[w].run].queried \subseteq 1..LastAttempt
  <1>1. worker[w] \in WorkerType /\ worker[w].run \in Runs
    BY UnderWay
  <1> QED
    BY <1>1, QuestionAssumption DEF Typed, WorkerType, RowType, LedgerType

LEMMA HoldingRecord ==
  ASSUME NEW r \in Runs, NEW n \in 1..LastAttempt,
         NEW step \in {"close", "release", "resume", "reload"}
  PROVE  /\ Holding(step, r, n) \in WorkerType /\ Sound(Holding(step, r, n))
         /\ ~Executing(Holding(step, r, n))
         /\ Holding(step, r, n).pc = step /\ Holding(step, r, n).run = r
         /\ Holding(step, r, n).attempt = n
         /\ Holding(step, r, n).state = "RECEIVED" /\ Holding(step, r, n).version = 0
         /\ Holding(step, r, n).used = 0 /\ Holding(step, r, n).owed = 0
         /\ Holding(step, r, n).links = {}
  BY QuestionAssumption, NamedStates
  DEF Holding, WorkerType, Sound, Recording, Tools, Executing, Calling, Driving, Closing

LEMMA IdleRecord == Idle \in WorkerType /\ Sound(Idle) /\ ~Executing(Idle) /\ Idle.pc = "idle"
                    /\ Idle.run = NoRun /\ Idle.state = "RECEIVED"
  BY QuestionAssumption, NamedStates
  DEF Idle, Holding, WorkerType, Sound, Recording, Tools, Executing, Calling, Driving, Closing

LEMMA IdleMoves ==
  ASSUME Typed, NEW w \in Workers, Becomes(w, Idle)
  PROVE  Moves(w)
  BY IdleRecord DEF Moves, MovesTo, Becomes, Driving

\* A worker that forgets all but its claim has nothing in its books.
LEMMA LeavesMoves ==
  ASSUME Typed, NEW w \in Workers, worker[w].pc # "idle",
         row' \in RowType, ledger' \in LedgerType,
         NEW step \in {"close", "release", "reload"}, step = "reload" => worker[w].pc \in Driving,
         Leaves(w, step)
  PROVE  Moves(w)
  <1> DEFINE r == worker[w].run
             m == Holding(step, r, worker[w].attempt)
  <1>1. worker' = [worker EXCEPT ![w] = m]
    BY DEF Leaves, Only, Becomes
  <1>2. /\ m \in WorkerType /\ Sound(m) /\ ~Executing(m) /\ m.pc = step /\ m.run = worker[w].run
        /\ m.attempt = worker[w].attempt /\ m.state = "RECEIVED" /\ m.version = 0 /\ m.used = 0
        /\ m.owed = 0 /\ m.links = {}
    BY UnderWay, HoldingRecord
  <1>3. step \in Driving => worker[w].pc \in Driving
    BY DEF Driving
  <1> HIDE DEF m
  <1>4. Fits(m, row'[r], ledger'[r].calls, ledger'[r].callers)
    <2>1. row'[r].version \in Nat \ {0} /\ ledger'[r].calls \in Nat
      BY UnderWay DEF RowType, LedgerType
    <2> QED
      BY <1>2, <2>1 DEF Fits, Calling, Tools
  <1>5. Queried(m, ledger'[r].queried)
    BY <1>2 DEF Queried, Tools
  <1> QED
    BY <1>1, <1>2, <1>3, <1>4, <1>5 DEF Moves, MovesTo

\* A worker that goes on with what it remembers, changed in some fields.
LEMMA ChangesMove ==
  ASSUME Typed, NEW w \in Workers, worker[w].pc # "idle",
         NEW m \in WorkerType, worker' = [worker EXCEPT ![w] = m], Sound(m),
         m.run = worker[w].run, m.attempt = worker[w].attempt,
         m.pc \in Driving => worker[w].pc \in Driving,
         Executing(m) => Executing(worker[w]) \/ Enters(w),
         m.state # "RECEIVED" => m.state = worker[w].state \/ row'[worker[w].run].state # "RECEIVED",
         FitsRun(w) => Fits(m, row'[m.run], ledger'[m.run].calls, ledger'[m.run].callers),
         Queried(worker[w], ledger[m.run].queried) => Queried(m, ledger'[m.run].queried)
  PROVE  Moves(w)
  <1>1. m.pc # "idle"
    BY UnderWay, QuestionAssumption DEF Sound
  <1> QED
    BY <1>1 DEF Moves, MovesTo

-----------------------------------------------------------------------------
(* What a worker's record is after some of its fields are changed.         *)

LEMMA WorkerTyped ==
  ASSUME Typed, NEW w \in Workers PROVE worker[w] \in WorkerType
  BY DEF Typed

WriteRecord(o, target) == [o EXCEPT !.pc = "write", !.target = target]

LEMMA WriteTyped ==
  ASSUME NEW o \in WorkerType, NEW target \in States
  PROVE  LET x == WriteRecord(o, target) IN
         /\ x \in WorkerType /\ x.run = o.run /\ x.attempt = o.attempt
         /\ x.pc = "write" /\ x.state = o.state /\ x.version = o.version /\ x.used = o.used
         /\ x.links = o.links /\ x.ran = o.ran /\ x.target = target /\ x.owed = o.owed
  BY DEF WriteRecord, WorkerType, Driving, Closing

StageRecord(o, s, v, n) == [o EXCEPT !.state = s, !.version = v, !.used = n, !.pc = "stage"]

LEMMA StageTyped ==
  ASSUME NEW o \in WorkerType, NEW s \in States, NEW v \in Nat, NEW n \in 0..Limit
  PROVE  LET x == StageRecord(o, s, v, n) IN
         /\ x \in WorkerType /\ x.run = o.run /\ x.attempt = o.attempt
         /\ x.pc = "stage" /\ x.state = s /\ x.version = v /\ x.used = n
         /\ x.links = o.links /\ x.ran = o.ran /\ x.target = o.target /\ x.owed = o.owed
  <1> DEFINE y == [o EXCEPT !.state = s, !.version = v]
  <1>1. StageRecord(o, s, v, n) = [y EXCEPT !.used = n, !.pc = "stage"]
    BY DEF StageRecord
  <1>2. /\ y \in WorkerType /\ y.run = o.run /\ y.attempt = o.attempt
        /\ y.pc = o.pc /\ y.state = s /\ y.version = v /\ y.used = o.used
        /\ y.links = o.links /\ y.ran = o.ran /\ y.target = o.target /\ y.owed = o.owed
    BY DEF WorkerType, Driving, Closing
  <1> HIDE DEF y
  <1> QED
    BY <1>1, <1>2 DEF WorkerType, Driving, Closing

LoopRecord(o, n) == [o EXCEPT !.pc = "loop", !.used = n, !.ran = 0]

LEMMA LoopTyped ==
  ASSUME NEW o \in WorkerType, NEW n \in 0..Limit
  PROVE  LET x == LoopRecord(o, n) IN
         /\ x \in WorkerType /\ x.run = o.run /\ x.attempt = o.attempt
         /\ x.pc = "loop" /\ x.state = o.state /\ x.version = o.version /\ x.used = n
         /\ x.links = o.links /\ x.ran = 0 /\ x.target = o.target /\ x.owed = o.owed
  <1> DEFINE y == [o EXCEPT !.pc = "loop", !.used = n]
  <1>1. LoopRecord(o, n) = [y EXCEPT !.ran = 0]
    BY DEF LoopRecord
  <1>2. /\ y \in WorkerType /\ y.run = o.run /\ y.attempt = o.attempt
        /\ y.pc = "loop" /\ y.state = o.state /\ y.version = o.version /\ y.used = n
        /\ y.links = o.links /\ y.ran = o.ran /\ y.target = o.target /\ y.owed = o.owed
    BY DEF WorkerType, Driving, Closing
  <1> HIDE DEF y
  <1> QED
    BY <1>1, <1>2 DEF WorkerType, Driving, Closing

AskedRecord(o, n) == [o EXCEPT !.pc = "asked", !.used = n]

LEMMA AskedTyped ==
  ASSUME NEW o \in WorkerType, NEW n \in 0..Limit
  PROVE  LET x == AskedRecord(o, n) IN
         /\ x \in WorkerType /\ x.run = o.run /\ x.attempt = o.attempt
         /\ x.pc = "asked" /\ x.state = o.state /\ x.version = o.version /\ x.used = n
         /\ x.links = o.links /\ x.ran = o.ran /\ x.target = o.target /\ x.owed = o.owed
  BY DEF AskedRecord, WorkerType, Driving, Closing

ToolsRecord(o, n, k) == [o EXCEPT !.used = n, !.ran = k]

LEMMA ToolsTyped ==
  ASSUME NEW o \in WorkerType, NEW n \in 0..Limit, NEW k \in 0..3
  PROVE  LET x == ToolsRecord(o, n, k) IN
         /\ x \in WorkerType /\ x.run = o.run /\ x.attempt = o.attempt
         /\ x.pc = o.pc /\ x.state = o.state /\ x.version = o.version /\ x.used = n
         /\ x.links = o.links /\ x.ran = k /\ x.target = o.target /\ x.owed = o.owed
  BY DEF ToolsRecord, WorkerType, Driving, Closing

AcceptedRecord(o, target, l) == [o EXCEPT !.pc = "write", !.target = target, !.ran = 0, !.links = l]

LEMMA AcceptedTyped ==
  ASSUME NEW o \in WorkerType, NEW target \in States, NEW l \in SUBSET Links
  PROVE  LET x == AcceptedRecord(o, target, l) IN
         /\ x \in WorkerType /\ x.run = o.run /\ x.attempt = o.attempt
         /\ x.pc = "write" /\ x.state = o.state /\ x.version = o.version /\ x.used = o.used
         /\ x.links = l /\ x.ran = 0 /\ x.target = target /\ x.owed = o.owed
  <1> DEFINE y == [o EXCEPT !.pc = "write", !.target = target]
             z == [y EXCEPT !.ran = 0]
  <1>1. AcceptedRecord(o, target, l) = [z EXCEPT !.links = l]
    BY DEF AcceptedRecord
  <1>2. /\ y \in WorkerType /\ y.run = o.run /\ y.attempt = o.attempt
        /\ y.pc = "write" /\ y.state = o.state /\ y.version = o.version /\ y.used = o.used
        /\ y.links = o.links /\ y.ran = o.ran /\ y.target = target /\ y.owed = o.owed
    BY DEF WorkerType, Driving, Closing
  <1> HIDE DEF y
  <1>3. /\ z \in WorkerType /\ z.run = o.run /\ z.attempt = o.attempt
        /\ z.pc = "write" /\ z.state = o.state /\ z.version = o.version /\ z.used = o.used
        /\ z.links = o.links /\ z.ran = 0 /\ z.target = target /\ z.owed = o.owed
    BY <1>2 DEF WorkerType, Driving, Closing
  <1> HIDE DEF z
  <1> QED
    BY <1>1, <1>3 DEF WorkerType, Driving, Closing

RecordRecord(o, k, j) == [o EXCEPT !.pc = "record", !.ran = k, !.owed = j]

LEMMA RecordTyped ==
  ASSUME NEW o \in WorkerType, NEW k \in 0..3, NEW j \in 0..2
  PROVE  LET x == RecordRecord(o, k, j) IN
         /\ x \in WorkerType /\ x.run = o.run /\ x.attempt = o.attempt
         /\ x.pc = "record" /\ x.state = o.state /\ x.version = o.version /\ x.used = o.used
         /\ x.links = o.links /\ x.ran = k /\ x.target = o.target /\ x.owed = j
  <1> DEFINE y == [o EXCEPT !.pc = "record", !.ran = k]
  <1>1. RecordRecord(o, k, j) = [y EXCEPT !.owed = j]
    BY DEF RecordRecord
  <1>2. /\ y \in WorkerType /\ y.run = o.run /\ y.attempt = o.attempt
        /\ y.pc = "record" /\ y.state = o.state /\ y.version = o.version /\ y.used = o.used
        /\ y.links = o.links /\ y.ran = k /\ y.target = o.target /\ y.owed = o.owed
    BY DEF WorkerType, Driving, Closing
  <1> HIDE DEF y
  <1> QED
    BY <1>1, <1>2 DEF WorkerType, Driving, Closing

ChargeRecord(o, n, k, j) ==
  [o EXCEPT !.pc = "write", !.target = "ANSWER_VERIFYING", !.used = n, !.ran = k, !.owed = j]

FinishRecord(o, n) == [o EXCEPT !.pc = "write", !.target = "ANSWERED", !.used = n, !.owed = 0]

LEMMA FinishTyped ==
  ASSUME NEW o \in WorkerType, NEW n \in 0..Limit
  PROVE  LET x == FinishRecord(o, n) IN
         /\ x \in WorkerType /\ x.run = o.run /\ x.attempt = o.attempt
         /\ x.pc = "write" /\ x.state = o.state /\ x.version = o.version /\ x.used = n
         /\ x.links = o.links /\ x.ran = o.ran /\ x.target = "ANSWERED" /\ x.owed = 0
  <1> DEFINE y == [o EXCEPT !.pc = "write", !.target = "ANSWERED"]
             z == [y EXCEPT !.used = n]
  <1>1. FinishRecord(o, n) = [z EXCEPT !.owed = 0]
    BY DEF FinishRecord
  <1>2. /\ y \in WorkerType /\ y.run = o.run /\ y.attempt = o.attempt
        /\ y.pc = "write" /\ y.state = o.state /\ y.version = o.version /\ y.used = o.used
        /\ y.links = o.links /\ y.ran = o.ran /\ y.target = "ANSWERED" /\ y.owed = o.owed
    BY NamedStates DEF WorkerType, Driving, Closing
  <1> HIDE DEF y
  <1>3. /\ z \in WorkerType /\ z.run = o.run /\ z.attempt = o.attempt
        /\ z.pc = "write" /\ z.state = o.state /\ z.version = o.version /\ z.used = n
        /\ z.links = o.links /\ z.ran = o.ran /\ z.target = "ANSWERED" /\ z.owed = o.owed
    BY <1>2, NamedStates DEF WorkerType, Driving, Closing
  <1> HIDE DEF z
  <1> QED
    BY <1>1, <1>3, NamedStates DEF WorkerType, Driving, Closing

WrittenRecord(o, pc, s, v) == [o EXCEPT !.pc = pc, !.state = s, !.version = v]

LEMMA WrittenTyped ==
  ASSUME NEW o \in WorkerType, NEW pc \in Driving, NEW s \in States, NEW v \in Nat
  PROVE  LET x == WrittenRecord(o, pc, s, v) IN
         /\ x \in WorkerType /\ x.run = o.run /\ x.attempt = o.attempt
         /\ x.pc = pc /\ x.state = s /\ x.version = v /\ x.used = o.used
         /\ x.links = o.links /\ x.ran = o.ran /\ x.target = o.target /\ x.owed = o.owed
  <1> DEFINE y == [o EXCEPT !.pc = pc, !.state = s]
  <1>1. WrittenRecord(o, pc, s, v) = [y EXCEPT !.version = v]
    BY DEF WrittenRecord
  <1>2. /\ y \in WorkerType /\ y.run = o.run /\ y.attempt = o.attempt
        /\ y.pc = pc /\ y.state = s /\ y.version = o.version /\ y.used = o.used
        /\ y.links = o.links /\ y.ran = o.ran /\ y.target = o.target /\ y.owed = o.owed
    BY DEF WorkerType, Driving, Closing
  <1> HIDE DEF y
  <1> QED
    BY <1>1, <1>2 DEF WorkerType, Driving, Closing

ReadRecord(o, s, v, n, pc, target) ==
  [o EXCEPT !.state = s, !.version = v, !.used = n, !.pc = pc, !.target = target]

LEMMA ReadTyped ==
  ASSUME NEW o \in WorkerType, NEW s \in States, NEW v \in Nat, NEW n \in 0..Limit,
         NEW pc \in Driving \union Closing, NEW target \in States
  PROVE  LET x == ReadRecord(o, s, v, n, pc, target) IN
         /\ x \in WorkerType /\ x.run = o.run /\ x.attempt = o.attempt
         /\ x.pc = pc /\ x.state = s /\ x.version = v /\ x.used = n
         /\ x.links = o.links /\ x.ran = o.ran /\ x.target = target /\ x.owed = o.owed
  <1> DEFINE y == [o EXCEPT !.state = s, !.version = v]
             z == [y EXCEPT !.used = n, !.pc = pc]
  <1>1. ReadRecord(o, s, v, n, pc, target) = [z EXCEPT !.target = target]
    BY DEF ReadRecord
  <1>2. /\ y \in WorkerType /\ y.run = o.run /\ y.attempt = o.attempt
        /\ y.pc = o.pc /\ y.state = s /\ y.version = v /\ y.used = o.used
        /\ y.links = o.links /\ y.ran = o.ran /\ y.target = o.target /\ y.owed = o.owed
    BY DEF WorkerType, Driving, Closing
  <1> HIDE DEF y
  <1>3. /\ z \in WorkerType /\ z.run = o.run /\ z.attempt = o.attempt
        /\ z.pc = pc /\ z.state = s /\ z.version = v /\ z.used = n
        /\ z.links = o.links /\ z.ran = o.ran /\ z.target = o.target /\ z.owed = o.owed
    BY <1>2 DEF WorkerType, Driving, Closing
  <1> HIDE DEF z
  <1> QED
    BY <1>1, <1>3 DEF WorkerType, Driving, Closing

-----------------------------------------------------------------------------
(* Accepted writes and calls.                                              *)

\* A write that is accepted is of the run as the worker knows it.  It goes on from
\* a state that is no outcome, never back to RECEIVED, takes nothing back that was
\* charged, and puts no attempt into the chain but the worker's.
AcceptedWrite(w) ==
  LET m == worker[w]  r == worker[w].run IN
    /\ r \in Runs /\ row[r].state \notin Terminal /\ m.pc \in {"write", "block"}
    /\ row'[r].used \in row[r].used..Limit
    /\ row'[r].state \in States \ {"CLARIFICATION_EXPIRED"}
    /\ row'[r].state = "RECEIVED" => row[r].state = "RECEIVED"
    /\ row[r].state = "RECEIVED" /\ row'[r].state \in Terminal => row'[r].state = "BLOCKED"
    /\ m.version = row[r].version /\ row'[r].version = m.version + 1
    /\ row'[r].used = m.used /\ row'[r].state = m.target
    /\ \A l \in Links : row'[r].chain[l] = IF l \in Offered(m) THEN m.attempt ELSE row[r].chain[l]
    /\ m.target = "ANSWERED" => \A l \in Links : row'[r].chain[l] # 0
    /\ row' = [row EXCEPT ![r] = row'[r]]

LEMMA WriteAccepted ==
  ASSUME Typed, NEW w \in Workers, worker[w].pc \in {"write", "block"},
         Applies(w), row' = Applied(w)
  PROVE  AcceptedWrite(w) /\ row' \in RowType
  <1> DEFINE m == worker[w]
             r == worker[w].run
             chain == Chained(m, row[r].chain)
             v == row[r].version + 1
             new == [state |-> m.target, version |-> v, used |-> m.used, chain |-> chain]
  <1>1. /\ r \in Runs /\ m.target \in States /\ m.used \in 0..Limit /\ m.attempt \in 0..LastAttempt
        /\ row[r].state \in States /\ row[r].used \in 0..Limit /\ row[r].version \in Nat
        /\ row[r].chain \in [Links -> 0..LastAttempt]
    <2>1. m \in WorkerType
      BY WorkerTyped
    <2> QED
      BY <2>1, UnderWay DEF WorkerType
  <1>2. /\ m.target \in Leads(row[r].state) /\ row[r].used <= m.used
        /\ m.version = row[r].version
        /\ row' = [row EXCEPT ![r] = new]
    BY DEF Applies, Applied
  <1>3. /\ chain \in [Links -> 0..LastAttempt]
        /\ \A l \in Links : chain[l] = IF l \in Offered(m) THEN m.attempt ELSE row[r].chain[l]
    BY <1>1 DEF Chained
  <1>4. m.target = "ANSWERED" => \A l \in Links : chain[l] # 0
    BY DEF Applies, ChainHolds
  <1>5. v \in Nat \ {0} /\ v = m.version + 1
    BY <1>1, <1>2
  <1> HIDE DEF chain, v
  <1>6. /\ new \in [state : States, version : Nat \ {0}, used : 0..Limit,
                    chain : [Links -> 0..LastAttempt]]
        /\ new.state = m.target /\ new.used = m.used /\ new.version = v /\ new.chain = chain
    BY <1>1, <1>3, <1>5
  <1> HIDE DEF new
  <1>7. row' \in RowType /\ row'[r] = new
    BY <1>1, <1>2, <1>6 DEF Typed, RowType
  <1>8. m.used \in row[r].used..Limit
    BY <1>1, <1>2, QuestionAssumption
  <1>9. /\ row[r].state \notin Terminal /\ m.target # "CLARIFICATION_EXPIRED"
        /\ m.target = "RECEIVED" => row[r].state = "RECEIVED"
        /\ row[r].state = "RECEIVED" /\ m.target \in Terminal => m.target = "BLOCKED"
    BY <1>1, <1>2, LeadsOn
  <1> QED
    BY <1>1, <1>2, <1>3, <1>4, <1>5, <1>6, <1>7, <1>8, <1>9 DEF AcceptedWrite

\* The worker makes n calls, which are its attempt's.
CallsAdded(w, n) ==
  LET r == worker[w].run  a == worker[w].attempt IN
  /\ Calling(worker[w]) /\ r \in Runs /\ n \in Nat /\ UNCHANGED row
  /\ \A q \in Runs : q # r => ledger'[q] = ledger[q]
  /\ ledger'[r].calls = ledger[r].calls + n
  /\ ledger'[r].callers = ledger[r].callers \union (IF n > 0 THEN {a} ELSE {})
  /\ ledger[r].queried \subseteq ledger'[r].queried

LEMMA ChargedLedger ==
  ASSUME Typed, NEW w \in Workers, worker[w].pc \in Tools,
         NEW queries \in SUBSET {worker[w].attempt}, Charged(w, queries)
  PROVE  /\ CallsAdded(w, 1) /\ ledger' \in LedgerType
         /\ ledger'[worker[w].run].queried = ledger[worker[w].run].queried \union queries
  <1> DEFINE r == worker[w].run
             a == worker[w].attempt
             n == ledger[r].calls + 1
             new == [calls |-> n, callers |-> ledger[r].callers \union {a},
                     queried |-> ledger[r].queried \union queries]
  <1>1. r \in Runs /\ a \in 1..LastAttempt
    BY UnderWay DEF Tools
  <1>2. ledger' = [ledger EXCEPT ![r] = new] /\ UNCHANGED row
    BY DEF Charged
  <1>3. /\ n \in Nat /\ ledger[r].callers \subseteq 1..LastAttempt
        /\ ledger[r].queried \subseteq 1..LastAttempt
    BY <1>1 DEF Typed, LedgerType
  <1>4. n = ledger[r].calls + 1
    OBVIOUS
  <1> HIDE DEF n
  <1>5. /\ new \in [calls : Nat, callers : SUBSET (1..LastAttempt), queried : SUBSET (1..LastAttempt)]
        /\ new.callers = ledger[r].callers \union {a} /\ new.calls = n
        /\ new.queried = ledger[r].queried \union queries
    BY <1>1, <1>3
  <1> HIDE DEF new
  <1>6. ledger' \in LedgerType
    BY <1>1, <1>2, <1>5 DEF Typed, LedgerType
  <1>7. \A q \in Runs : ledger'[q] = IF q = r THEN new ELSE ledger[q]
    BY <1>2 DEF Typed, LedgerType
  <1>8. Calling(worker[w]) /\ 1 \in Nat /\ 1 > 0
    BY DEF Calling
  <1> QED
    BY <1>1, <1>2, <1>4, <1>5, <1>6, <1>7, <1>8 DEF CallsAdded

LEMMA ComposeLedger ==
  ASSUME Typed, NEW w \in Workers, worker[w].pc = "compose", NEW n \in 0..2, UNCHANGED row,
         ledger' = [ledger EXCEPT ![worker[w].run].calls = @ + n,
                      ![worker[w].run].callers = @ \union (IF n > 0 THEN {worker[w].attempt} ELSE {})]
  PROVE  CallsAdded(w, n) /\ ledger' \in LedgerType
  <1> DEFINE r == worker[w].run
             a == worker[w].attempt
             calls == ledger[r].calls + n
             callers == ledger[r].callers \union (IF n > 0 THEN {a} ELSE {})
             new == [ledger[r] EXCEPT !.calls = calls, !.callers = callers]
  <1>1. r \in Runs /\ a \in 1..LastAttempt
    BY UnderWay
  <1>2. /\ ledger[r] \in [calls : Nat, callers : SUBSET (1..LastAttempt), queried : SUBSET (1..LastAttempt)]
        /\ ledger \in LedgerType
    BY <1>1 DEF Typed, LedgerType
  <1>3. calls \in Nat /\ callers \in SUBSET (1..LastAttempt)
    BY <1>1, <1>2
  <1>4. ledger' = [ledger EXCEPT ![r] = new]
    BY <1>1, <1>2 DEF LedgerType
  <1>5. /\ calls = ledger[r].calls + n
        /\ callers = ledger[r].callers \union (IF n > 0 THEN {a} ELSE {})
    OBVIOUS
  <1> HIDE DEF calls, callers
  <1>6. /\ new \in [calls : Nat, callers : SUBSET (1..LastAttempt), queried : SUBSET (1..LastAttempt)]
        /\ new.callers = callers /\ new.calls = calls /\ new.queried = ledger[r].queried
    BY <1>2, <1>3
  <1> HIDE DEF new
  <1>7. ledger' \in LedgerType
    BY <1>1, <1>2, <1>4, <1>6 DEF LedgerType
  <1>8. \A q \in Runs : ledger'[q] = IF q = r THEN new ELSE ledger[q]
    BY <1>2, <1>4 DEF LedgerType
  <1>9. Calling(worker[w]) /\ n \in Nat
    BY DEF Calling
  <1> QED
    BY <1>1, <1>5, <1>6, <1>7, <1>8, <1>9 DEF CallsAdded

-----------------------------------------------------------------------------
(* Every step of a worker is a move.                                       *)

LEMMA AimsMoves ==
  ASSUME Typed, NEW w \in Workers, NEW target \in States \ {"RECEIVED"},
         (worker[w].pc = "stage" /\ Alive(w)) \/ worker[w].pc \in Tools,
         worker[w].state \notin {"RESULT_VERIFYING", "ANSWER_VERIFYING"},
         Aims(w, target), UNCHANGED <<row, ledger>>
  PROVE  Moves(w)
  <1> DEFINE o == worker[w]
             r == worker[w].run
             m == WriteRecord(o, target)
  <1>1. worker' = [worker EXCEPT ![w] = m]
    BY DEF Aims, Becomes, WriteRecord
  <1>2. o.pc # "idle" /\ o.pc \in Driving
    BY DEF Driving, Tools
  <1>3. /\ m \in WorkerType /\ m.run = r /\ m.attempt = o.attempt
        /\ m.pc = "write" /\ m.state = o.state /\ m.version = o.version /\ m.used = o.used
        /\ m.links = o.links /\ m.target = target /\ m.owed = o.owed
    BY WorkerTyped, WriteTyped
  <1> HIDE DEF m
  <1>4. o.owed = 0
    BY <1>2, UnderWay DEF Sound, Tools
  <1>5. Sound(m)
    BY <1>2, <1>3, <1>4, UnderWay DEF Sound, Recording, Tools, Closing
  <1>6. Executing(m) => Executing(o) \/ Enters(w)
    <2>1. CASE o.pc \in Tools
      BY <2>1 DEF Executing, Calling
    <2>2. CASE o.pc = "stage" /\ Alive(w)
      <3>1. Executing(m) => row[r].state # "RECEIVED"
        BY <1>3 DEF Executing, Calling, Tools, Typed, Departed
      <3> QED
        BY <1>2, <2>2, <3>1 DEF Enters
    <2> QED
      BY <2>1, <2>2
  <1>7. FitsRun(w) => Fits(m, row[r], ledger[r].calls, ledger[r].callers)
    BY <1>2, <1>3, <1>4, Numbers DEF FitsRun, Fits, Calling, Tools
  <1>8. Queried(o, ledger[r].queried) => Queried(m, ledger[r].queried)
    BY <1>3 DEF Queried, Tools
  <1> QED
    BY <1>1, <1>2, <1>3, <1>5, <1>6, <1>7, <1>8, ChangesMove

LEMMA ResumeMoves ==
  ASSUME Typed, NEW w \in Workers, Resume(w)
  PROVE  Moves(w)
  <1> DEFINE o == worker[w]
             r == worker[w].run
             m == StageRecord(o, row[r].state, row[r].version, row[r].used)
  <1>1. o.pc = "resume" /\ UNCHANGED <<row, ledger>>
    BY DEF Resume, At, OnlyWorker
  <1>2. CASE Leaves(w, "release")
    BY <1>1, <1>2, LeavesMoves DEF Typed
  <1>3. CASE ~Leaves(w, "release")
    <2>1. worker' = [worker EXCEPT ![w] = m]
      BY <1>3 DEF Resume, Reads, Becomes, StageRecord
    <2>2. row[r].state \in States /\ row[r].version \in Nat /\ row[r].used \in 0..Limit
      BY <1>1, UnderWay
    <2>3. /\ m \in WorkerType /\ m.run = r /\ m.attempt = o.attempt
          /\ m.pc = "stage" /\ m.state = row[r].state /\ m.version = row[r].version
          /\ m.used = row[r].used /\ m.links = o.links /\ m.owed = o.owed
      BY <2>2, WorkerTyped, StageTyped
    <2> HIDE DEF m
    <2>4. o.owed = 0 /\ o.links = {}
      BY <1>1, UnderWay DEF Sound
    <2>5. Sound(m) /\ ~Executing(m)
      BY <1>1, <2>2, <2>3, <2>4, UnderWay, QuestionAssumption
      DEF Sound, Recording, Tools, Executing, Calling, Closing
    <2>6. ASSUME FitsRun(w) PROVE Fits(m, row[r], ledger[r].calls, ledger[r].callers)
      <3>1. Fits(o, row[r], ledger[r].calls, ledger[r].callers)
            /\ Balance(row[r], ledger[r].calls, ledger[r].callers)
        BY <2>6 DEF FitsRun
      <3>2. m.used + m.owed <= ledger[r].calls
        BY <1>1, <2>3, <2>4, <3>1, Numbers DEF Balance
      <3>3. ~Calling(m) /\ m.pc # "write"
        BY <2>3 DEF Calling, Tools
      <3>4. ledger[r].callers \subseteq {m.attempt} => ledger[r].calls = row[r].used
        BY <1>1, <2>3, <3>1 DEF Fits
      <3>5. m.version <= row[r].version
        BY <1>1, <2>3, Numbers
      <3> HIDE DEF o, r
      <3> QED
        BY <2>3, <3>2, <3>3, <3>4, <3>5 DEF Fits
    <2>7. Queried(m, ledger[r].queried)
      BY <2>3, <2>4 DEF Queried, Tools
    <2> QED
      BY <1>1, <2>1, <2>3, <2>5, <2>6, <2>7, ChangesMove DEF Driving
  <1> QED
    BY <1>2, <1>3

LEMMA StageMoves ==
  ASSUME Typed, NEW w \in Workers, Stop(w) \/ Hop(w) \/ OutOfScope(w)
  PROVE  Moves(w)
  <1>1. worker[w].pc = "stage" /\ UNCHANGED <<row, ledger>>
    BY DEF Stop, Hop, OutOfScope, At, OnlyWorker
  <1>2. CASE Stop(w)
    BY <1>1, <1>2, LeavesMoves DEF Stop, Typed
  <1>3. CASE Hop(w)
    <2>1. worker[w].state \in DOMAIN Hops /\ Aims(w, Hops[worker[w].state]) /\ Alive(w)
      BY <1>3 DEF Hop
    <2>2. Hops[worker[w].state] \in States \ {"RECEIVED"}
      BY <2>1, HopStates
    <2>3. worker[w].state \notin {"RESULT_VERIFYING", "ANSWER_VERIFYING"}
      BY <2>1, HopStates
    <2> QED
      BY <1>1, <2>1, <2>2, <2>3, AimsMoves
  <1>4. CASE OutOfScope(w)
    BY <1>1, <1>4, NamedStates, AimsMoves DEF OutOfScope
  <1> QED
    BY <1>2, <1>3, <1>4

LEMMA EnterMoves ==
  ASSUME Typed, NEW w \in Workers, Enter(w)
  PROVE  Moves(w)
  <1> DEFINE o == worker[w]
             r == worker[w].run
             m == LoopRecord(o, row[r].used)
  <1>1. /\ o.pc = "stage" /\ Alive(w) /\ o.state \in DOMAIN Stages
        /\ UNCHANGED <<row, ledger>>
    BY DEF Enter, At, OnlyWorker
  <1>2. CASE row[r].state = o.state
    <2>1. worker' = [worker EXCEPT ![w] = m]
      BY <1>2 DEF Enter, Becomes, LoopRecord
    <2>2. row[r].used \in 0..Limit /\ o.owed = 0 /\ o.state \notin Terminal /\ o.state # "RECEIVED"
      BY <1>1, UnderWay, StageStates DEF Sound, Terminal, Clarification
    <2>3. /\ m \in WorkerType /\ m.run = r /\ m.attempt = o.attempt
          /\ m.pc = "loop" /\ m.state = o.state /\ m.version = o.version
          /\ m.used = row[r].used /\ m.links = o.links /\ m.ran = 0 /\ m.owed = o.owed
      BY <2>2, WorkerTyped, LoopTyped
    <2> HIDE DEF m
    <2>4. Sound(m)
      BY <1>1, <2>2, <2>3, UnderWay, QuestionAssumption DEF Sound, Recording, Tools, Closing
    <2>5. Enters(w)
      BY <1>1, <1>2, <2>2 DEF Enters, Driving
    <2>6. FitsRun(w) => Fits(m, row[r], ledger[r].calls, ledger[r].callers)
      BY <1>1, <1>2, <2>2, <2>3, <2>5, Numbers DEF FitsRun, Fits, Balance, Calling, Tools
    <2>7. Queried(o, ledger[r].queried) => Queried(m, ledger[r].queried)
      BY <2>3 DEF Queried
    <2> QED
      BY <1>1, <2>1, <2>3, <2>4, <2>5, <2>6, <2>7, ChangesMove DEF Driving
  <1>3. CASE row[r].state # o.state
    <2>1. Aims(w, "BLOCKED")
      BY <1>3 DEF Enter
    <2> QED
      BY <1>1, <2>1, StageStates, NamedStates, AimsMoves
  <1> QED
    BY <1>2, <1>3

LEMMA FinalizeMoves ==
  ASSUME Typed, NEW w \in Workers, Finalize(w)
  PROVE  Moves(w)
  <1> DEFINE o == worker[w]
             r == worker[w].run
             m == ReadRecord(o, row[r].state, row[r].version, row[r].used, "write", "ANSWER_VERIFYING")
  <1>1. /\ o.pc = "stage" /\ Alive(w) /\ o.state = "RESULT_VERIFYING"
        /\ UNCHANGED <<row, ledger>>
    BY DEF Finalize, At, OnlyWorker
  <1>2. CASE row[r].state = o.state
    <2>1. worker' = [worker EXCEPT ![w] = m]
      BY <1>2 DEF Finalize, Reads, Becomes, ReadRecord
    <2>2. /\ row[r].state \in States /\ row[r].version \in Nat /\ row[r].used \in 0..Limit
          /\ o.owed = 0
      BY <1>1, UnderWay DEF Sound
    <2>3. "write" \in Driving \union Closing /\ "ANSWER_VERIFYING" \in States
      BY NamedStates DEF Driving
    <2>4. /\ m \in WorkerType /\ m.run = r /\ m.attempt = o.attempt
          /\ m.pc = "write" /\ m.state = row[r].state /\ m.version = row[r].version
          /\ m.used = row[r].used /\ m.links = o.links /\ m.target = "ANSWER_VERIFYING"
          /\ m.owed = o.owed
      BY <2>2, <2>3, WorkerTyped, ReadTyped
    <2> HIDE DEF m
    <2>5. Sound(m)
      BY <1>1, <1>2, <2>2, <2>4, UnderWay, QuestionAssumption DEF Sound, Recording, Tools, Closing
    <2>6. Enters(w)
      BY <1>1, <1>2 DEF Enters, Driving
    <2>7. FitsRun(w) => Fits(m, row[r], ledger[r].calls, ledger[r].callers)
      BY <1>1, <2>2, <2>4, Numbers DEF FitsRun, Fits, Balance, Calling, Tools
    <2>8. Queried(o, ledger[r].queried) => Queried(m, ledger[r].queried)
      BY <2>4 DEF Queried, Tools
    <2> QED
      BY <1>1, <1>2, <2>1, <2>4, <2>5, <2>6, <2>7, <2>8, ChangesMove DEF Driving
  <1>3. CASE row[r].state # o.state
    <2>1. Leaves(w, "reload")
      BY <1>3 DEF Finalize
    <2> QED
      BY <1>1, <2>1, LeavesMoves DEF Driving, Typed
  <1> QED
    BY <1>2, <1>3

LEMMA ThinkMoves ==
  ASSUME Typed, NEW w \in Workers, Think(w)
  PROVE  Moves(w)
  <1> DEFINE o == worker[w]
             r == worker[w].run
             n == worker[w].used + 1
             m == AskedRecord(o, n)
  <1>1. /\ o.pc \in {"loop", "asked"} /\ o.pc \in Tools /\ o.owed = 0 /\ o.used < Limit
        /\ o.state \in DOMAIN Stages /\ o.state # "RECEIVED"
    BY UnderWay, StageStates DEF Think, Charged, Sound, Tools
  <1>2. worker' = [worker EXCEPT ![w] = m] /\ Charged(w, {})
    BY DEF Think, Becomes, AskedRecord
  <1>3. n \in 0..Limit /\ n = o.used + 1
    BY <1>1, UnderWay, QuestionAssumption DEF WorkerType
  <1> HIDE DEF n
  <1>4. /\ m \in WorkerType /\ m.run = r /\ m.attempt = o.attempt
        /\ m.pc = "asked" /\ m.state = o.state /\ m.version = o.version /\ m.used = n
        /\ m.links = o.links /\ m.ran = o.ran /\ m.owed = o.owed
    BY <1>3, WorkerTyped, AskedTyped
  <1> HIDE DEF m
  <1>5. CallsAdded(w, 1)
    BY <1>1, <1>2, ChargedLedger
  <1>6. Sound(m)
    BY <1>1, <1>3, <1>4, UnderWay, QuestionAssumption DEF Sound, Recording, Tools, Closing
  <1>7. Executing(o)
    BY <1>1 DEF Executing, Calling
  <1>8. FitsRun(w) => Fits(m, row'[r], ledger'[r].calls, ledger'[r].callers)
    BY <1>1, <1>3, <1>4, <1>5, Numbers DEF CallsAdded, FitsRun, Fits, Calling, Tools
  <1>9. Queried(o, ledger[r].queried) => Queried(m, ledger'[r].queried)
    BY <1>1, <1>4, <1>5 DEF CallsAdded, Queried
  <1> QED
    BY <1>1, <1>2, <1>4, <1>6, <1>7, <1>8, <1>9, ChangesMove DEF Driving

LEMMA ProposeMoves ==
  ASSUME Typed, NEW w \in Workers, Propose(w)
  PROVE  Moves(w)
  <1> DEFINE o == worker[w]
             r == worker[w].run
             m == [o EXCEPT !.pc = "tools"]
  <1>1. /\ o.pc \in {"loop", "asked"} /\ o.pc \in Tools /\ o.owed = 0
        /\ o.state \in DOMAIN Stages /\ o.state # "RECEIVED"
        /\ UNCHANGED <<row, ledger>>
    BY UnderWay, StageStates DEF Propose, At, Sound, Tools, OnlyWorker
  <1>2. worker' = [worker EXCEPT ![w] = m]
    BY DEF Propose, Goes, Becomes
  <1>3. /\ m \in WorkerType /\ m.run = r /\ m.attempt = o.attempt
        /\ m.pc = "tools" /\ m.state = o.state /\ m.version = o.version /\ m.used = o.used
        /\ m.links = o.links /\ m.ran = o.ran /\ m.owed = o.owed
    BY WorkerTyped DEF WorkerType, Driving
  <1> HIDE DEF m
  <1>4. Sound(m)
    BY <1>1, <1>3, UnderWay DEF Sound, Recording, Tools, Closing
  <1>5. Executing(o)
    BY <1>1 DEF Executing, Calling
  <1>6. FitsRun(w) => Fits(m, row[r], ledger[r].calls, ledger[r].callers)
    BY <1>1, <1>3, Numbers DEF FitsRun, Fits, Calling, Tools
  <1>7. Queried(o, ledger[r].queried) => Queried(m, ledger[r].queried)
    BY <1>1, <1>3 DEF Queried
  <1> QED
    BY <1>1, <1>2, <1>3, <1>4, <1>5, <1>6, <1>7, ChangesMove DEF Driving

LEMMA RunToolMoves ==
  ASSUME Typed, NEW w \in Workers, RunTool(w)
  PROVE  Moves(w)
  <1> DEFINE o == worker[w]
             r == worker[w].run
             n == worker[w].used + 1
             k == worker[w].ran + 1
             queries == IF Pipeline[o.state][o.ran + 1] = "execute" THEN {o.attempt} ELSE {}
             m == ToolsRecord(o, n, k)
  <1>1. /\ o.pc = "tools" /\ o.pc \in Tools /\ o.owed = 0 /\ o.used < Limit
        /\ o.state \in DOMAIN Stages /\ o.ran < Len(Pipeline[o.state])
        /\ o.state # "RECEIVED"
    BY UnderWay, StageStates DEF RunTool, Charged, Sound, At, Tools
  <1>2. worker' = [worker EXCEPT ![w] = m] /\ Charged(w, queries)
    BY DEF RunTool, Becomes, ToolsRecord
  <1>3. n \in 0..Limit /\ n = o.used + 1 /\ k \in 0..3 /\ k = o.ran + 1 /\ o.ran \in 0..3
    <2>1. o.used \in 0..Limit /\ o.ran \in 0..3
      BY WorkerTyped DEF WorkerType
    <2>2. n \in 0..Limit
      BY <1>1, <2>1, QuestionAssumption
    <2> DEFINE length == Len(Pipeline[o.state])
    <2>3. length \in 0..3 /\ o.ran < length
      BY <1>1, PipelineLength
    <2> HIDE DEF length
    <2>4. k \in 0..3
      BY <2>1, <2>3
    <2> QED
      BY <2>1, <2>2, <2>4
  <1>4. o.state = "IR_READY" /\ k = 3 => queries = {o.attempt}
    BY <1>3, ResultOfQuery
  <1>5. queries \in SUBSET {o.attempt}
    OBVIOUS
  <1> HIDE DEF n, k, queries
  <1>6. /\ m \in WorkerType /\ m.run = r /\ m.attempt = o.attempt
        /\ m.pc = o.pc /\ m.state = o.state /\ m.version = o.version /\ m.used = n
        /\ m.links = o.links /\ m.ran = k /\ m.owed = o.owed
    <2>1. n \in 0..Limit /\ k \in 0..3
      BY <1>3
    <2> HIDE DEF m
    <2>2. o \in WorkerType
      BY WorkerTyped
    <2> QED
      BY <2>1, <2>2 DEF m, ToolsRecord, WorkerType, Driving, Closing
  <1> HIDE DEF m
  <1>7. CallsAdded(w, 1) /\ ledger'[r].queried = ledger[r].queried \union queries
    BY <1>1, <1>2, <1>5, ChargedLedger
  <1>8. Sound(m)
    BY <1>1, <1>3, <1>6, UnderWay, QuestionAssumption DEF Sound, Recording, Tools, Closing
  <1>9. Executing(o)
    BY <1>1 DEF Executing, Calling
  <1>10. FitsRun(w) => Fits(m, row'[r], ledger'[r].calls, ledger'[r].callers)
    <2>1. FitsRun(w) =>
            /\ ledger[r].calls = o.used /\ row[r].state \notin Terminal \ {"BLOCKED"}
            /\ o.version <= row[r].version
            /\ o.version = row[r].version => o.state = row[r].state
      BY <1>1, Numbers DEF FitsRun, Fits, Calling
    <2>2. row' = row /\ ledger'[r].calls = ledger[r].calls + 1
      BY <1>7 DEF CallsAdded
    <2> QED
      BY <1>1, <1>3, <1>6, <2>1, <2>2, Numbers DEF Fits, Calling, Tools
  <1>11. Queried(o, ledger[r].queried) => Queried(m, ledger'[r].queried)
    BY <1>4, <1>6, <1>7 DEF Queried
  <1> QED
    BY <1>1, <1>2, <1>6, <1>8, <1>9, <1>10, <1>11, ChangesMove DEF Driving

LEMMA AcceptMoves ==
  ASSUME Typed, NEW w \in Workers, Accept(w)
  PROVE  Moves(w)
  <1> DEFINE o == worker[w]
             r == worker[w].run
             s == worker[w].state
             target == Stages[s]
             links == worker[w].links \union Won[s]
             m == AcceptedRecord(o, target, links)
  <1>1. /\ o.pc = "tools" /\ o.pc \in Tools /\ o.owed = 0 /\ s \in DOMAIN Stages
        /\ o.ran = Len(Pipeline[s]) /\ UNCHANGED <<row, ledger>>
    BY UnderWay DEF Accept, Sound, At, Tools, OnlyWorker
  <1>2. CASE Leaves(w, "close")
    BY <1>1, <1>2, LeavesMoves DEF Typed
  <1>3. CASE ~Leaves(w, "close")
    <2>1. worker' = [worker EXCEPT ![w] = m]
      BY <1>3 DEF Accept, Becomes, AcceptedRecord
    <2>2. target \in States \ {"RECEIVED"} /\ links \in SUBSET Links
      BY <1>1, StageStates, WonLinks, UnderWay DEF WorkerType
    <2>3. Queried(o, ledger[r].queried) /\ "result" \in links => o.attempt \in ledger[r].queried
      BY <1>1, ResultOfQuery DEF Queried
    <2>4. s \notin {"RECEIVED", "RESULT_VERIFYING", "ANSWER_VERIFYING"} /\ target # "ANSWERED"
      BY <1>1, StageStates DEF Stages
    <2> HIDE DEF target, links
    <2>5. /\ m \in WorkerType /\ m.run = r /\ m.attempt = o.attempt
          /\ m.pc = "write" /\ m.state = s /\ m.version = o.version /\ m.used = o.used
          /\ m.links = links /\ m.target = target /\ m.owed = o.owed
      BY <2>2, WorkerTyped, AcceptedTyped
    <2> HIDE DEF m
    <2>6. Sound(m)
      BY <1>1, <2>2, <2>4, <2>5, UnderWay DEF Sound, Recording, Tools, Closing
    <2>7. Executing(o)
      BY <1>1 DEF Executing, Calling
    <2>8. FitsRun(w) => Fits(m, row[r], ledger[r].calls, ledger[r].callers)
      BY <1>1, <2>5, Numbers DEF FitsRun, Fits, Calling, Tools
    <2>9. Queried(o, ledger[r].queried) => Queried(m, ledger[r].queried)
      BY <2>3, <2>5 DEF Queried, Tools
    <2> QED
      BY <1>1, <2>1, <2>5, <2>6, <2>7, <2>8, <2>9, ChangesMove DEF Driving
  <1> QED
    BY <1>2, <1>3

LEMMA EndsLoopMoves ==
  ASSUME Typed, NEW w \in Workers, Clarify(w) \/ GiveUp(w)
  PROVE  Moves(w)
  <1>1. worker[w].pc \in Tools /\ worker[w].state \in DOMAIN Stages /\ UNCHANGED <<row, ledger>>
    BY UnderWay DEF Clarify, GiveUp, At, Sound, Tools, OnlyWorker
  <1>2. Aims(w, "CLARIFICATION_REQUIRED") \/ Aims(w, "BLOCKED")
    BY DEF Clarify, GiveUp
  <1>3. worker[w].state \notin {"RESULT_VERIFYING", "ANSWER_VERIFYING"}
    BY <1>1, StageStates
  <1> QED
    BY <1>1, <1>2, <1>3, NamedStates, AimsMoves

\* n attempts at the answer are made, failed of them refused.
LEMMA AnswersMove ==
  ASSUME Typed, NEW w \in Workers, worker[w].pc = "compose", UNCHANGED row,
         NEW n \in 0..2, NEW failed \in 0..2, failed <= n, worker[w].used + n <= Limit,
         CallsAdded(w, n),
         worker' = [worker EXCEPT ![w] = RecordRecord(worker[w], failed, n)]
  PROVE  Moves(w)
  <1> DEFINE o == worker[w]
             r == worker[w].run
             m == RecordRecord(o, failed, n)
  <1>1. o.state = "ANSWER_VERIFYING" /\ o.owed = 0
    BY UnderWay DEF Sound
  <1>2. failed \in 0..3
    OBVIOUS
  <1>3. /\ m \in WorkerType /\ m.run = r /\ m.attempt = o.attempt
        /\ m.pc = "record" /\ m.state = o.state /\ m.version = o.version /\ m.used = o.used
        /\ m.links = o.links /\ m.ran = failed /\ m.owed = n
    BY <1>2, WorkerTyped, RecordTyped
  <1>4. worker' = [worker EXCEPT ![w] = m]
    OBVIOUS
  <1> HIDE DEF m
  <1>5. Sound(m)
    BY <1>1, <1>3, UnderWay DEF Sound, Recording, Tools, Closing
  <1>6. Executing(o)
    BY DEF Executing, Calling
  <1>7. FitsRun(w) => Fits(m, row'[r], ledger'[r].calls, ledger'[r].callers)
    BY <1>1, <1>3, Numbers DEF CallsAdded, FitsRun, Fits, Calling, Tools
  <1>8. Queried(o, ledger[r].queried) => Queried(m, ledger'[r].queried)
    BY <1>3 DEF CallsAdded, Queried, Tools
  <1>9. o.pc # "idle" /\ o.pc \in Driving
    BY DEF Driving
  <1> QED
    BY <1>3, <1>4, <1>5, <1>6, <1>7, <1>8, <1>9, ChangesMove

LEMMA ComposeMoves ==
  ASSUME Typed, NEW w \in Workers, Compose(w) \/ ComposeFails(w)
  PROVE  Moves(w)
  <1>1. worker[w].pc = "compose"
    BY DEF Compose, ComposeFails, At
  <1>2. CASE ComposeFails(w)
    BY <1>1, <1>2, LeavesMoves DEF ComposeFails, Driving, OnlyWorker, Typed
  <1>3. CASE Compose(w)
    <2>1. UNCHANGED row
      BY <1>3, Zenon DEF Compose
    <2>2. PICK n \in {k \in 0..2 : worker[w].used + k <= Limit} :
               \E failed \in {k \in 0..n : k + 1 >= n} :
                 /\ ledger' = [ledger EXCEPT ![worker[w].run].calls = @ + n,
                                 ![worker[w].run].callers =
                                   @ \union (IF n > 0 THEN {worker[w].attempt} ELSE {})]
                 /\ Becomes(w, [worker[w] EXCEPT !.pc = "record", !.ran = failed, !.owed = n])
      BY <1>3, Zenon DEF Compose
    <2>3. PICK failed \in {k \in 0..n : k + 1 >= n} :
                 /\ ledger' = [ledger EXCEPT ![worker[w].run].calls = @ + n,
                                 ![worker[w].run].callers =
                                   @ \union (IF n > 0 THEN {worker[w].attempt} ELSE {})]
                 /\ Becomes(w, [worker[w] EXCEPT !.pc = "record", !.ran = failed, !.owed = n])
      BY <2>2, Zenon
    <2>4. n \in 0..2 /\ failed \in 0..2 /\ failed <= n /\ worker[w].used + n <= Limit
      OBVIOUS
    <2>5. CallsAdded(w, n)
      BY <1>1, <2>1, <2>3, <2>4, ComposeLedger, Zenon
    <2>6. worker' = [worker EXCEPT ![w] = RecordRecord(worker[w], failed, n)]
      BY <2>3, Zenon DEF Becomes, RecordRecord
    <2> QED
      BY <1>1, <2>1, <2>4, <2>5, <2>6, AnswersMove, Zenon
  <1> QED
    BY <1>2, <1>3

\* A refused attempt at the answer is charged, the last one with the answer.
LEMMA RecordDoes ==
  ASSUME Typed, NEW w \in Workers, Record(w)
  PROVE  LET o == worker[w]  x == worker'[w] IN
         /\ worker' = [worker EXCEPT ![w] = x] /\ x \in WorkerType
         /\ o.pc = "record" /\ o.state = "ANSWER_VERIFYING"
         /\ x.run = o.run /\ x.attempt = o.attempt /\ x.pc = "write" /\ x.state = o.state
         /\ x.version = o.version /\ x.links = o.links
         /\ x.used + x.owed = o.used + o.owed /\ x.used + x.owed <= Limit
         /\ x.ran <= x.owed
         /\ x.target = "ANSWER_VERIFYING" \/ (x.target = "ANSWERED" /\ x.owed = 0)
  <1> DEFINE o == worker[w]
  <1>1. /\ o.pc = "record" /\ o.state = "ANSWER_VERIFYING"
        /\ o.ran <= o.owed /\ o.used + o.owed <= Limit
        /\ o.ran \in 0..3 /\ o.owed \in 0..2 /\ o.used \in 0..Limit
    BY UnderWay, WorkerTyped DEF Record, At, Sound, Recording, WorkerType
  <1>2. o \in WorkerType
    BY WorkerTyped
  <1>3. CASE o.ran > 0
    <2> DEFINE n == o.used + 1
               k == o.ran - 1
               j == o.owed - 1
               m == ChargeRecord(o, n, k, j)
    <2>1. worker' = [worker EXCEPT ![w] = m]
      BY <1>3 DEF Record, Becomes, ChargeRecord
    <2>2. n \in 0..Limit /\ k \in 0..3 /\ j \in 0..2 /\ k <= j /\ n + j = o.used + o.owed
          /\ n + j <= Limit
      BY <1>1, <1>3, QuestionAssumption
    <2> HIDE DEF n, k, j
    <2>3. /\ m \in WorkerType /\ m.run = o.run /\ m.attempt = o.attempt
          /\ m.pc = "write" /\ m.state = o.state /\ m.version = o.version /\ m.used = n
          /\ m.links = o.links /\ m.ran = k /\ m.target = "ANSWER_VERIFYING" /\ m.owed = j
      <3> DEFINE y == WriteRecord(o, "ANSWER_VERIFYING")
                 z == ToolsRecord(y, n, k)
      <3>1. m = [z EXCEPT !.owed = j]
        BY SMTT(60) DEF ChargeRecord, WriteRecord, ToolsRecord
      <3>2. /\ y \in WorkerType /\ y.run = o.run /\ y.attempt = o.attempt
            /\ y.pc = "write" /\ y.state = o.state /\ y.version = o.version /\ y.used = o.used
            /\ y.links = o.links /\ y.ran = o.ran /\ y.target = "ANSWER_VERIFYING" /\ y.owed = o.owed
        BY <1>2, NamedStates, WriteTyped
      <3> HIDE DEF y
      <3>3. n \in 0..Limit /\ k \in 0..3 /\ j \in 0..2
        BY <2>2
      <3>4. /\ z \in WorkerType /\ z.run = o.run /\ z.attempt = o.attempt
            /\ z.pc = "write" /\ z.state = o.state /\ z.version = o.version /\ z.used = n
            /\ z.links = o.links /\ z.ran = k /\ z.target = "ANSWER_VERIFYING" /\ z.owed = o.owed
        BY <3>2, <3>3 DEF ToolsRecord, WorkerType
      <3> HIDE DEF z, m
      <3> QED
        BY <3>1, <3>3, <3>4 DEF WorkerType
    <2> HIDE DEF m
    <2>4. worker'[w] = m
      BY <2>1 DEF Typed
    <2> QED
      BY <1>1, <2>1, <2>2, <2>3, <2>4
  <1>4. CASE ~(o.ran > 0)
    <2> DEFINE n == o.used + o.owed
               m == FinishRecord(o, n)
    <2>1. worker' = [worker EXCEPT ![w] = m]
      BY <1>4 DEF Record, Becomes, FinishRecord
    <2>2. n \in 0..Limit /\ n + 0 = o.used + o.owed /\ n + 0 <= Limit /\ o.ran <= 0
      BY <1>4, <1>1, QuestionAssumption
    <2> HIDE DEF n
    <2>3. /\ m \in WorkerType /\ m.run = o.run /\ m.attempt = o.attempt /\ m.pc = "write"
          /\ m.owed = 0 /\ m.used = n /\ m.state = o.state /\ m.version = o.version
          /\ m.links = o.links /\ m.target = "ANSWERED" /\ m.ran = o.ran
      BY <1>2, <2>2, FinishTyped
    <2> HIDE DEF m
    <2>4. worker'[w] = m
      BY <2>1 DEF Typed
    <2> QED
      BY <1>1, <2>1, <2>2, <2>3, <2>4
  <1> QED
    BY <1>3, <1>4

LEMMA RecordMoves ==
  ASSUME Typed, NEW w \in Workers, Record(w)
  PROVE  Moves(w)
  <1> DEFINE o == worker[w]
             r == worker[w].run
             m == worker'[w]
  <1>1. /\ worker' = [worker EXCEPT ![w] = m] /\ m \in WorkerType
        /\ o.pc = "record" /\ o.state = "ANSWER_VERIFYING"
        /\ m.run = r /\ m.attempt = o.attempt /\ m.pc = "write" /\ m.state = o.state
        /\ m.version = o.version /\ m.links = o.links
        /\ m.used + m.owed = o.used + o.owed /\ m.used + m.owed <= Limit
        /\ m.ran <= m.owed
        /\ m.target = "ANSWER_VERIFYING" \/ (m.target = "ANSWERED" /\ m.owed = 0)
    BY RecordDoes
  <1>2. UNCHANGED <<row, ledger>>
    BY DEF Record, OnlyWorker
  <1> HIDE DEF m
  <1>3. Executing(o)
    BY <1>1 DEF Executing, Calling
  <1>4. Sound(m)
    BY <1>1, UnderWay, QuestionAssumption DEF Sound, Recording, Tools, Closing
  <1>5. FitsRun(w) => Fits(m, row[r], ledger[r].calls, ledger[r].callers)
    BY <1>1, Numbers DEF FitsRun, Fits, Calling, Tools
  <1>6. Queried(o, ledger[r].queried) => Queried(m, ledger[r].queried)
    BY <1>1 DEF Queried, Tools
  <1> QED
    BY <1>1, <1>2, <1>3, <1>4, <1>5, <1>6, ChangesMove DEF Driving

LEMMA WriteMoves ==
  ASSUME Typed, NEW w \in Workers, Write(w)
  PROVE  Moves(w)
  <1> DEFINE o == worker[w]
             r == worker[w].run
  <1>1. /\ o.pc = "write" /\ o.version \in Nat /\ o.target \in States /\ o.target # "RECEIVED"
        /\ UNCHANGED ledger
    BY WorkerTyped, UnderWay DEF Write, At, WorkerType, Sound
  <1>2. AcceptedWrite(w) /\ row' \in RowType
    BY <1>1, WriteAccepted DEF Write
  <1>3. CASE o.target \in Terminal
    BY <1>1, <1>2, <1>3, LeavesMoves DEF Write, Leaves, Typed
  <1>4. CASE o.target \notin Terminal
    <2> DEFINE pc == Continues(o)
               v == o.version + 1
               m == WrittenRecord(o, pc, o.target, v)
    <2>1. worker' = [worker EXCEPT ![w] = m]
      BY <1>4 DEF Write, Becomes, WrittenRecord
    <2>2. /\ pc \in {"compose", "record", "stage"} /\ v \in Nat /\ v = o.version + 1
          /\ pc = "compose" => o.state = "RESULT_VERIFYING"
          /\ pc = "record" => o.state = "ANSWER_VERIFYING"
          /\ pc = "stage" => o.state \notin {"RESULT_VERIFYING", "ANSWER_VERIFYING"}
      BY <1>1 DEF Continues
    <2> HIDE DEF pc, v
    <2>3. /\ m \in WorkerType /\ m.run = r /\ m.attempt = o.attempt
          /\ m.pc = pc /\ m.state = o.target /\ m.version = v /\ m.used = o.used
          /\ m.links = o.links /\ m.ran = o.ran /\ m.owed = o.owed
      <3>1. pc \in Driving
        BY <2>2 DEF Driving
      <3> QED
        BY <1>1, <2>2, <3>1, WorkerTyped, WrittenTyped
    <2> HIDE DEF m
    <2>4. o.target # "BLOCKED" /\ o.target # "ANSWERED"
      BY <1>4 DEF Terminal
    <2>5. Sound(m)
      BY <1>1, <2>2, <2>3, <2>4, UnderWay DEF Sound, Recording, Tools, Closing
    <2>6. Executing(m) => Executing(o)
      <3>1. pc \in {"compose", "record"} => Executing(o)
        BY <1>1, <2>2, <2>4 DEF Executing
      <3> QED
        BY <2>2, <2>3, <3>1 DEF Executing, Calling, Tools
    <2>7. row'[r].state = o.target /\ row'[r].used = o.used /\ row'[r].version = v
          /\ o.version = row[r].version
      BY <1>2, <2>2 DEF AcceptedWrite
    <2>8. FitsRun(w) => Fits(m, row'[r], ledger[r].calls, ledger[r].callers)
      <3>1. o.owed # 0 => pc = "record"
        BY <1>1, <2>2, <2>4, UnderWay DEF Sound, Continues
      <3>2. Calling(m) => Executing(o)
        BY <2>6 DEF Executing
      <3>3. o.version \in Nat /\ o.used \in Nat /\ o.owed \in Nat /\ ledger[r].calls \in Nat
        BY <1>1, Numbers
      <3> SUFFICES ASSUME FitsRun(w) PROVE Fits(m, row'[r], ledger[r].calls, ledger[r].callers)
        OBVIOUS
      <3>4. /\ o.used + o.owed <= ledger[r].calls
            /\ ledger[r].callers \subseteq {o.attempt} => ledger[r].calls = o.used + o.owed
            /\ Calling(m) => ledger[r].callers \subseteq {o.attempt}
        BY <1>1, <2>4, <2>7, <3>2 DEF FitsRun, Fits
      <3> QED
        BY <1>4, <2>2, <2>3, <2>7, <3>1, <3>3, <3>4 DEF Fits
    <2>9. Queried(o, ledger[r].queried) => Queried(m, ledger[r].queried)
      BY <2>2, <2>3 DEF Queried, Tools
    <2> QED
      BY <1>1, <2>1, <2>3, <2>5, <2>6, <2>7, <2>8, <2>9, ChangesMove DEF Driving
  <1> QED
    BY <1>3, <1>4

LEMMA WriteFailsMoves ==
  ASSUME Typed, NEW w \in Workers, WriteRefused(w) \/ ProjectionRefused(w) \/ PinRefused(w)
  PROVE  Moves(w)
  <1>1. worker[w].pc = "write" /\ UNCHANGED <<row, ledger>>
    BY DEF WriteRefused, ProjectionRefused, PinRefused, At, OnlyWorker
  <1>2. Leaves(w, "reload") \/ Leaves(w, "close") \/ Leaves(w, "release")
    BY DEF WriteRefused, ProjectionRefused, PinRefused
  <1> QED
    BY <1>1, <1>2, LeavesMoves DEF Driving, Typed

\* A worker reads its run and will block it.
LEMMA ReadsToBlock ==
  ASSUME Typed, NEW w \in Workers, worker[w].pc \in {"reload", "close"},
         NEW pc \in {"write", "block"}, pc = "write" => worker[w].pc = "reload",
         UNCHANGED <<row, ledger>>,
         Becomes(w, ReadRecord(worker[w], row[worker[w].run].state, row[worker[w].run].version,
                               row[worker[w].run].used, pc, "BLOCKED"))
  PROVE  Moves(w)
  <1> DEFINE o == worker[w]
             r == worker[w].run
             m == ReadRecord(o, row[r].state, row[r].version, row[r].used, pc, "BLOCKED")
  <1>1. worker' = [worker EXCEPT ![w] = m]
    BY DEF Becomes
  <1>2. row[r].state \in States /\ row[r].version \in Nat /\ row[r].used \in 0..Limit
        /\ o.owed = 0 /\ o.links = {}
    BY UnderWay DEF Sound, Closing
  <1>3. /\ m \in WorkerType /\ m.run = r /\ m.attempt = o.attempt
        /\ m.pc = pc /\ m.state = row[r].state /\ m.version = row[r].version
        /\ m.used = row[r].used /\ m.links = o.links /\ m.target = "BLOCKED" /\ m.owed = o.owed
    <2>1. pc \in Driving \union Closing /\ "BLOCKED" \in States
      BY NamedStates DEF Driving, Closing
    <2> DEFINE s == row[r].state
               v == row[r].version
               n == row[r].used
    <2>2. o \in WorkerType /\ s \in States /\ v \in Nat /\ n \in 0..Limit
      BY <1>2, WorkerTyped
    <2> HIDE DEF s, v, n
    <2>3. LET x == ReadRecord(o, s, v, n, pc, "BLOCKED") IN
          /\ x \in WorkerType /\ x.run = o.run /\ x.attempt = o.attempt
          /\ x.pc = pc /\ x.state = s /\ x.version = v /\ x.used = n
          /\ x.links = o.links /\ x.ran = o.ran /\ x.target = "BLOCKED" /\ x.owed = o.owed
      BY <2>1, <2>2, ReadTyped
    <2> QED
      BY <2>3, Zenon DEF s, v, n
  <1> HIDE DEF m
  <1>4. Sound(m) /\ ~Executing(m)
    BY <1>2, <1>3, UnderWay, QuestionAssumption
    DEF Sound, Recording, Tools, Executing, Calling, Closing
  <1>5. FitsRun(w) => Fits(m, row[r], ledger[r].calls, ledger[r].callers)
    <2>1. ~Calling(m) /\ m.pc \notin {"resume", "stage"} /\ m.owed = 0
      BY <1>2, <1>3 DEF Calling, Tools
    <2>2. FitsRun(w) => row[r].used <= ledger[r].calls
      BY DEF FitsRun, Balance
    <2> QED
      BY <1>3, <2>1, <2>2, Numbers DEF Fits
  <1>6. Queried(m, ledger[r].queried)
    BY <1>2, <1>3 DEF Queried, Tools
  <1> QED
    BY <1>1, <1>3, <1>4, <1>5, <1>6, ChangesMove DEF Driving

LEMMA ReloadMoves ==
  ASSUME Typed, NEW w \in Workers, Reload(w)
  PROVE  Moves(w)
  <1>1. worker[w].pc = "reload" /\ UNCHANGED <<row, ledger>>
    BY DEF Reload, At, OnlyWorker
  <1>2. CASE Leaves(w, "release")
    BY <1>1, <1>2, LeavesMoves DEF Typed
  <1>3. CASE ~Leaves(w, "release")
    <2>1. Becomes(w, ReadRecord(worker[w], row[worker[w].run].state, row[worker[w].run].version,
                                row[worker[w].run].used, "write", "BLOCKED"))
      BY <1>3 DEF Reload, Leaves, Reads, ReadRecord
    <2> QED
      BY <1>1, <2>1, ReadsToBlock
  <1> QED
    BY <1>2, <1>3

LEMMA CloseMoves ==
  ASSUME Typed, NEW w \in Workers, Close(w)
  PROVE  Moves(w)
  <1>1. worker[w].pc = "close" /\ UNCHANGED <<row, ledger>>
    BY DEF Close, At, OnlyWorker
  <1>2. CASE Leaves(w, "release")
    BY <1>1, <1>2, LeavesMoves DEF Typed
  <1>3. CASE ~Leaves(w, "release")
    <2>1. Becomes(w, ReadRecord(worker[w], row[worker[w].run].state, row[worker[w].run].version,
                                row[worker[w].run].used, "block", "BLOCKED"))
      BY <1>3 DEF Close, Leaves, Reads, ReadRecord
    <2> QED
      BY <1>1, <2>1, ReadsToBlock
  <1> QED
    BY <1>2, <1>3

\* Writing the outcome, giving the lease back, and what goes wrong.
LEMMA EndsMove ==
  ASSUME Typed, NEW w \in Workers,
         Block(w) \/ Release(w) \/ LeaseLost(w) \/ Crash(w) \/ Fault(w)
  PROVE  Moves(w)
  <1>1. CASE Release(w) \/ Crash(w)
    BY <1>1, IdleMoves DEF Release, Crash
  <1>2. CASE Block(w)
    <2>1. worker[w].pc = "block" /\ Leaves(w, "release") /\ UNCHANGED ledger
      BY <1>2 DEF Block, At
    <2>2. row' \in RowType
      BY <1>2, <2>1, WriteAccepted DEF Block, Typed
    <2> QED
      BY <2>1, <2>2, LeavesMoves DEF Typed
  <1>3. CASE LeaseLost(w)
    BY <1>3, LeavesMoves DEF LeaseLost, Driving, OnlyWorker, Typed
  <1>4. CASE Fault(w)
    <2>1. /\ worker[w].pc \in Driving \union {"close", "block"} /\ UNCHANGED ledger
          /\ Leaves(w, "release") \/ Leaves(w, "close")
      BY <1>4 DEF Fault
    <2>2. worker[w].pc # "idle"
      BY <2>1 DEF Driving
    <2>3. row' \in RowType
      BY <1>4, WriteAccepted DEF Fault, Typed
    <2> QED
      BY <2>1, <2>2, <2>3, LeavesMoves DEF Typed
  <1> QED
    BY <1>1, <1>2, <1>3, <1>4

LEMMA WorkMoves ==
  ASSUME Typed, NEW w \in Workers, Work(w) \/ Crash(w) \/ Fault(w)
  PROVE  Moves(w)
  BY ResumeMoves, StageMoves, EnterMoves, FinalizeMoves, ThinkMoves, ProposeMoves, RunToolMoves,
     AcceptMoves, EndsLoopMoves, ComposeMoves, RecordMoves, ReloadMoves, WriteMoves,
     WriteFailsMoves, CloseMoves, EndsMove
  DEF Work, Drive

-----------------------------------------------------------------------------
(* What the steps of a worker do to the database and the ledger.           *)

\* The steps of a worker under way, and what they leave alone.
LEMMA WorkRow ==
  ASSUME Typed, NEW w \in Workers, Work(w) \/ Crash(w) \/ Fault(w)
  PROVE  UNCHANGED row \/ (AcceptedWrite(w) /\ row' \in RowType /\ UNCHANGED ledger)
  <1>1. CASE Write(w)
    BY <1>1, WriteAccepted DEF Write, At
  <1>2. CASE Block(w)
    BY <1>2, WriteAccepted DEF Block, At
  <1>3. CASE Fault(w)
    BY <1>3, WriteAccepted DEF Fault
  <1>4. CASE Drive(w) /\ ~Write(w)
    <2>1. CASE Think(w) \/ RunTool(w) \/ Compose(w)
      BY <2>1, Zenon DEF Think, RunTool, Compose, Charged
    <2>2. CASE ~(Think(w) \/ RunTool(w) \/ Compose(w))
      BY <1>4, <2>2 DEF Drive, OnlyWorker, Resume, Stop, Hop, OutOfScope, Enter, Finalize,
         Propose, Accept, Clarify, GiveUp, ComposeFails, Record, Reload,
         WriteRefused, ProjectionRefused, PinRefused
    <2> QED
      BY <2>1, <2>2
  <1>5. CASE Close(w) \/ Release(w) \/ LeaseLost(w) \/ Crash(w)
    BY <1>5 DEF Close, Release, LeaseLost, Crash, OnlyWorker
  <1> QED
    BY <1>1, <1>2, <1>3, <1>4, <1>5 DEF Work

\* Who makes calls goes on making calls, and they are its attempt's.
LEMMA ThinkCalls ==
  ASSUME Typed, NEW w \in Workers, Think(w) \/ RunTool(w)
  PROVE  CallsAdded(w, 1) /\ ledger' \in LedgerType /\ Calling(worker'[w])
  <1>1. worker[w].pc \in Tools /\ worker[w] \in WorkerType
    BY WorkerTyped DEF Think, RunTool, At, Tools
  <1>2. CASE Think(w)
    <2>1. Charged(w, {}) /\ worker'[w].pc = "asked"
      BY <1>1, <1>2 DEF Think, Becomes, Typed, WorkerType
    <2> QED
      BY <1>1, <2>1, ChargedLedger DEF Calling, Tools
  <1>3. CASE RunTool(w)
    <2>1. PICK queries \in SUBSET {worker[w].attempt} : Charged(w, queries)
      BY <1>3 DEF RunTool
    <2>2. worker'[w].pc = "tools"
      BY <1>1, <1>3 DEF RunTool, At, Becomes, Typed, WorkerType
    <2> QED
      BY <1>1, <2>1, <2>2, ChargedLedger DEF Calling, Tools
  <1> QED
    BY <1>2, <1>3

LEMMA ComposeCalls ==
  ASSUME Typed, NEW w \in Workers, Compose(w)
  PROVE  (\E n \in Nat : CallsAdded(w, n)) /\ ledger' \in LedgerType /\ Calling(worker'[w])
  <1>1. worker[w].pc = "compose" /\ UNCHANGED row
    BY Zenon DEF Compose, At
  <1>2. PICK n \in {k \in 0..2 : worker[w].used + k <= Limit} :
               \E failed \in {k \in 0..n : k + 1 >= n} :
                 /\ ledger' = [ledger EXCEPT ![worker[w].run].calls = @ + n,
                                 ![worker[w].run].callers =
                                   @ \union (IF n > 0 THEN {worker[w].attempt} ELSE {})]
                 /\ Becomes(w, [worker[w] EXCEPT !.pc = "record", !.ran = failed, !.owed = n])
    BY Zenon DEF Compose
  <1>3. PICK failed \in {k \in 0..n : k + 1 >= n} :
                 /\ ledger' = [ledger EXCEPT ![worker[w].run].calls = @ + n,
                                 ![worker[w].run].callers =
                                   @ \union (IF n > 0 THEN {worker[w].attempt} ELSE {})]
                 /\ Becomes(w, [worker[w] EXCEPT !.pc = "record", !.ran = failed, !.owed = n])
    BY <1>2, Zenon
  <1>4. n \in 0..2 /\ n \in Nat /\ failed \in 0..3
    OBVIOUS
  <1>5. CallsAdded(w, n) /\ ledger' \in LedgerType
    BY <1>1, <1>3, <1>4, ComposeLedger, Zenon
  <1>6. worker' = [worker EXCEPT ![w] = RecordRecord(worker[w], failed, n)]
    BY <1>3, Zenon DEF Becomes, RecordRecord
  <1>7. RecordRecord(worker[w], failed, n).pc = "record"
    BY <1>4, WorkerTyped, RecordTyped
  <1>8. worker'[w].pc = "record"
    BY <1>6, <1>7 DEF Typed
  <1> QED
    BY <1>4, <1>5, <1>8 DEF Calling

LEMMA WorkLedger ==
  ASSUME Typed, NEW w \in Workers, Work(w) \/ Crash(w) \/ Fault(w)
  PROVE  \/ UNCHANGED ledger
         \/ (\E n \in Nat : CallsAdded(w, n)) /\ ledger' \in LedgerType /\ Calling(worker'[w])
  <1>1. CASE Think(w) \/ RunTool(w)
    <2>1. 1 \in Nat
      OBVIOUS
    <2> QED
      BY <1>1, <2>1, ThinkCalls
  <1>2. CASE Compose(w)
    BY <1>2, ComposeCalls
  <1>3. CASE Drive(w) /\ ~Think(w) /\ ~RunTool(w) /\ ~Compose(w)
    BY <1>3 DEF Drive, OnlyWorker, Resume, Stop, Hop, OutOfScope, Enter, Finalize,
       Propose, Accept, Clarify, GiveUp, ComposeFails, Record, Reload,
       Write, WriteRefused, ProjectionRefused, PinRefused
  <1>4. CASE Close(w) \/ Block(w) \/ Release(w) \/ LeaseLost(w) \/ Crash(w) \/ Fault(w)
    BY <1>4 DEF Close, Block, Release, LeaseLost, Crash, Fault, OnlyWorker
  <1> QED
    BY <1>1, <1>2, <1>3, <1>4 DEF Work

LEMMA WorkLease ==
  ASSUME Typed, NEW w \in Workers, Work(w) \/ Crash(w) \/ Fault(w)
  PROVE  /\ lease' \in LeaseType
         /\ \A r \in Runs : lease'[r].attempt = lease[r].attempt
         /\ UNCHANGED <<child, pinned>>
         /\ mishaps' \in 0..Mishaps /\ delays' \in 0..Delays
  <1> USE DEF Typed
  <1>1. CASE Drive(w)
    BY <1>1 DEF Drive, OnlyWorker, Resume, Stop, Hop, OutOfScope, Enter, Finalize, Think, Charged,
       Propose, RunTool, Accept, Clarify, GiveUp, Compose, ComposeFails, Record, Reload,
       Write, WriteRefused, ProjectionRefused, PinRefused
  <1>2. CASE Close(w) \/ Block(w) \/ LeaseLost(w)
    BY <1>2 DEF Close, Block, LeaseLost, OnlyWorker
  <1>3. CASE Crash(w) \/ Fault(w)
    BY <1>3, QuestionAssumption DEF Crash, Fault, Mishap
  <1>4. CASE Release(w)
    <2>1. CASE UNCHANGED lease
      BY <1>4, <2>1 DEF Release
    <2>2. CASE ~UNCHANGED lease
      <3> DEFINE r == worker[w].run
                 new == [lease[r] EXCEPT !.held = FALSE, !.expired = FALSE]
      <3>1. r \in Runs
        BY <1>4, UnderWay DEF Release, At
      <3>2. lease' = [lease EXCEPT ![r] = new] /\ UNCHANGED <<child, pinned, mishaps, delays>>
        BY <1>4, <2>2 DEF Release
      <3>3. lease[r] \in [attempt : 0..LastAttempt, held : BOOLEAN, expired : BOOLEAN]
        BY <3>1 DEF LeaseType
      <3>4. /\ new \in [attempt : 0..LastAttempt, held : BOOLEAN, expired : BOOLEAN]
            /\ new.attempt = lease[r].attempt
        BY <3>3
      <3> HIDE DEF new
      <3> QED
        BY <3>1, <3>2, <3>4 DEF LeaseType
    <2> QED
      BY <2>1, <2>2
  <1> QED
    BY <1>1, <1>2, <1>3, <1>4 DEF Work

-----------------------------------------------------------------------------
(* The types are kept.                                                     *)

LEMMA MovedWorkers ==
  ASSUME Typed, NEW w \in Workers, Moves(w)
  PROVE  /\ worker' \in [Workers -> WorkerType]
         /\ \A v \in Workers : Sound(worker'[v])
         /\ \A v \in Workers : v # w => worker'[v] = worker[v]
         /\ MovesTo(w, worker'[w])
  BY DEF Moves, MovesTo, Typed

LEMMA WorkTyped ==
  ASSUME Typed, NEW w \in Workers, Work(w) \/ Crash(w) \/ Fault(w)
  PROVE  Typed'
  <1>1. Moves(w)
    BY WorkMoves
  <1>2. worker' \in [Workers -> WorkerType] /\ \A v \in Workers : Sound(worker'[v])
    BY <1>1, MovedWorkers
  <1>3. row' \in RowType
    BY WorkRow DEF Typed
  <1>4. ledger' \in LedgerType
    BY WorkLedger DEF Typed
  <1>5. /\ lease' \in LeaseType /\ UNCHANGED <<child, pinned>>
        /\ mishaps' \in 0..Mishaps /\ delays' \in 0..Delays
    BY WorkLease
  <1>6. \A r \in Runs : row[r].state # "RECEIVED" => row'[r].state # "RECEIVED"
    BY WorkRow DEF AcceptedWrite, Typed, RowType
  <1>7. Departed'
    <2> SUFFICES ASSUME NEW v \in Workers, worker'[v].state # "RECEIVED"
                 PROVE  worker'[v].run \in Runs /\ row'[worker'[v].run].state # "RECEIVED"
      BY DEF Departed
    <2>1. CASE v # w
      <3>1. worker'[v] = worker[v]
        BY <1>1, <2>1, MovedWorkers
      <3> QED
        BY <1>6, <3>1 DEF Typed, Departed
    <2>2. CASE v = w
      <3> DEFINE m == worker'[w]
      <3>1. /\ m \in WorkerType /\ Sound(m) /\ m.pc # "idle" /\ m.run = worker[w].run
            /\ m.state = worker[w].state \/ row'[worker[w].run].state # "RECEIVED"
        BY <1>1, <2>2, MovedWorkers DEF MovesTo
      <3>2. m.run \in Runs
        BY <3>1 DEF Sound, WorkerType
      <3> QED
        BY <1>6, <2>2, <3>1, <3>2 DEF Typed, Departed
    <2> QED
      BY <2>1, <2>2
  <1> QED
    BY <1>2, <1>3, <1>4, <1>5, <1>7 DEF Typed

\* A claim, as the proofs see it.
LEMMA ClaimDoes ==
  ASSUME Typed, Looks, NEW w \in Workers, NEW r \in Runs, Claim(w, r)
  PROVE  /\ worker[w].pc = "idle"
         /\ worker' \in [Workers -> WorkerType]
         /\ \A v \in Workers : v # w => worker'[v] = worker[v]
         /\ Sound(worker'[w]) /\ ~Executing(worker'[w])
         /\ worker'[w].pc = Mode(r) /\ worker'[w].run = r
         /\ worker'[w].attempt = lease'[r].attempt
         /\ worker'[w].state = "RECEIVED" /\ worker'[w].version = 0 /\ worker'[w].used = 0
         /\ worker'[w].owed = 0 /\ worker'[w].links = {}
         /\ lease' \in LeaseType
         /\ lease'[r].attempt = lease[r].attempt + 1
         /\ \A q \in Runs : q # r => lease'[q].attempt = lease[q].attempt
         /\ delays' \in 0..Delays
         /\ UNCHANGED <<row, child, pinned, ledger, mishaps>>
  <1> DEFINE n == lease[r].attempt + 1
             m == Holding(Mode(r), r, n)
             new == [attempt |-> n, held |-> TRUE, expired |-> FALSE]
  <1>1. lease[r].attempt \in 0..LastAttempt /\ lease[r].attempt < LastAttempt
    <2>1. lease[r].attempt \in 0..LastAttempt
      BY DEF Typed, LeaseType
    <2>2. IsFiniteSet(Lookers(r)) /\ Cardinality(Lookers(r)) \in Nat
      BY QuestionAssumption, FS_Subset, FS_CardinalityType DEF Lookers
    <2>3. w \in Lookers(r)
      BY DEF Claim, Lookers
    <2>4. Cardinality(Lookers(r)) # 0
      BY <2>2, <2>3, FS_EmptySet
    <2>5. lease[r].attempt + Cardinality(Lookers(r)) <= LastAttempt
      BY DEF Looks
    <2> QED
      BY <2>1, <2>2, <2>4, <2>5
  <1>2. n \in 1..LastAttempt
    BY <1>1
  <1>3. lease' = [lease EXCEPT ![r] = new] /\ worker' = [worker EXCEPT ![w] = m]
        /\ worker[w].pc = "idle" /\ UNCHANGED <<row, child, pinned, ledger, mishaps>>
    BY DEF Claim, Becomes, At
  <1>10. delays' \in 0..Delays
    BY QuestionAssumption DEF Claim, Loses, Delay, Typed
  <1>8. n = lease[r].attempt + 1
    OBVIOUS
  <1> HIDE DEF n
  <1>4. new \in [attempt : 0..LastAttempt, held : BOOLEAN, expired : BOOLEAN] /\ new.attempt = n
    BY <1>2
  <1> HIDE DEF new
  <1>5. /\ lease' \in LeaseType
        /\ lease'[r].attempt = n
        /\ \A q \in Runs : q # r => lease'[q].attempt = lease[q].attempt
    BY <1>3, <1>4 DEF Typed, LeaseType
  <1>6. Mode(r) \in {"close", "release", "resume", "reload"}
    BY DEF Mode
  <1>7. /\ m \in WorkerType /\ Sound(m) /\ ~Executing(m)
        /\ m.pc = Mode(r) /\ m.run = r /\ m.attempt = n
        /\ m.state = "RECEIVED" /\ m.version = 0 /\ m.used = 0 /\ m.owed = 0 /\ m.links = {}
    BY <1>2, <1>6, HoldingRecord
  <1> HIDE DEF m
  <1>9. /\ worker' \in [Workers -> WorkerType] /\ worker'[w] = m
        /\ \A v \in Workers : v # w => worker'[v] = worker[v]
    BY <1>3, <1>7 DEF Typed
  <1> QED
    BY <1>3, <1>5, <1>7, <1>8, <1>9, <1>10

LEMMA ClaimTyped ==
  ASSUME Typed, Looks, NEW w \in Workers, NEW r \in Runs, Claim(w, r)
  PROVE  Typed'
  <1>1. \A v \in Workers : Sound(worker'[v])
    BY ClaimDoes DEF Typed
  <1>2. Departed'
    BY ClaimDoes DEF Typed, Departed
  <1> QED
    BY <1>1, <1>2, ClaimDoes DEF Typed

\* A lease expires, roles change, a clarification expires or is answered.
LEMMA ExpireDoes ==
  ASSUME Typed, NEW r \in Runs, Expire(r)
  PROVE  /\ lease' \in LeaseType /\ \A q \in Runs : lease'[q].attempt = lease[q].attempt
         /\ delays' \in 0..Delays
         /\ UNCHANGED <<row, worker, child, pinned, ledger, mishaps>>
  <1> DEFINE new == [lease[r] EXCEPT !.expired = TRUE]
  <1>1. lease' = [lease EXCEPT ![r] = new] /\ UNCHANGED <<row, worker, child, pinned, ledger, mishaps>>
    BY DEF Expire, Typed, LeaseType
  <1>2. lease[r] \in [attempt : 0..LastAttempt, held : BOOLEAN, expired : BOOLEAN]
    BY DEF Typed, LeaseType
  <1>3. /\ new \in [attempt : 0..LastAttempt, held : BOOLEAN, expired : BOOLEAN]
        /\ new.attempt = lease[r].attempt
    BY <1>2
  <1> HIDE DEF new
  <1>4. lease' \in LeaseType /\ \A q \in Runs : lease'[q].attempt = lease[q].attempt
    BY <1>1, <1>3 DEF Typed, LeaseType
  <1>5. delays' \in 0..Delays
    BY QuestionAssumption DEF Expire, Loses, Delay, Typed
  <1> QED
    BY <1>1, <1>4, <1>5

LEMMA ClarificationExpiresDoes ==
  ASSUME Typed, NEW r \in Runs, ClarificationExpires(r)
  PROVE  LET new == row'[r] IN
         /\ row' \in RowType /\ row' = [row EXCEPT ![r] = new]
         /\ row[r].state = "CLARIFICATION_REQUIRED" /\ new.state = "CLARIFICATION_EXPIRED"
         /\ new.used = row[r].used /\ new.chain = row[r].chain
         /\ new.version = row[r].version + 1
         /\ UNCHANGED <<lease, worker, child, pinned, ledger, mishaps, delays>>
  <1> DEFINE v == row[r].version + 1
             new == [row[r] EXCEPT !.state = "CLARIFICATION_EXPIRED", !.version = v]
  <1>1. row' = [row EXCEPT ![r] = new] /\ row[r].state = "CLARIFICATION_REQUIRED"
        /\ UNCHANGED <<lease, worker, child, pinned, ledger, mishaps, delays>>
    BY DEF ClarificationExpires, Typed, RowType
  <1>2. row[r] \in [state : States, version : Nat \ {0}, used : 0..Limit, chain : [Links -> 0..LastAttempt]]
    BY DEF Typed, RowType
  <1>3. v \in Nat \ {0} /\ "CLARIFICATION_EXPIRED" \in States
    BY <1>2, NamedStates
  <1>5. v = row[r].version + 1
    OBVIOUS
  <1> HIDE DEF v
  <1>4. /\ new \in [state : States, version : Nat \ {0}, used : 0..Limit, chain : [Links -> 0..LastAttempt]]
        /\ new.state = "CLARIFICATION_EXPIRED" /\ new.used = row[r].used
        /\ new.chain = row[r].chain /\ new.version = v
    BY <1>2, <1>3
  <1> HIDE DEF new
  <1> QED
    BY <1>1, <1>4, <1>5 DEF Typed, RowType

LEMMA TypedStep == Typed /\ Looks /\ [QuestionNext]_questionVars => Typed'
  <1> SUFFICES ASSUME Typed, Looks, [QuestionNext]_questionVars PROVE Typed'
    OBVIOUS
  <1>1. ASSUME NEW w \in Workers, Work(w) \/ Crash(w) \/ Fault(w) PROVE Typed'
    BY <1>1, WorkTyped
  <1>2. ASSUME NEW w \in Workers, NEW r \in Runs, Claim(w, r) PROVE Typed'
    BY <1>2, ClaimTyped
  <1>3. ASSUME NEW r \in Runs, Expire(r) PROVE Typed'
    BY <1>3, ExpireDoes DEF Typed, Departed
  <1>4. ASSUME NEW r \in Runs, RolesChange(r) PROVE Typed'
    BY <1>4 DEF RolesChange, Typed, Departed
  <1>5. ASSUME NEW r \in Runs, ClarificationExpires(r) PROVE Typed'
    <2>1. \A q \in Runs : row[q].state # "RECEIVED" => row'[q].state # "RECEIVED"
      BY <1>5, ClarificationExpiresDoes DEF Typed, RowType
    <2>2. UNCHANGED worker
      BY <1>5 DEF ClarificationExpires
    <2>3. Departed'
      BY <2>1, <2>2 DEF Typed, Departed
    <2> QED
      BY <1>5, <2>3, ClarificationExpiresDoes DEF Typed
  <1>6. ASSUME NEW r \in Runs, SubmitClarification(r) PROVE Typed'
    BY <1>6 DEF SubmitClarification, Typed, Departed
  <1>7. CASE UNCHANGED questionVars
    BY <1>7 DEF questionVars, Typed, Departed
  <1>8. ASSUME NEW w \in Workers, NEW r \in Runs, Look(w, r) \/ Miss(w, r) PROVE Typed'
    BY <1>8 DEF Look, Miss, Typed, Departed
  <1> QED
    BY <1>1, <1>2, <1>3, <1>4, <1>5, <1>6, <1>7, <1>8 DEF QuestionNext

LEMMA TypedInit == QuestionInit => Typed
  <1> SUFFICES ASSUME QuestionInit PROVE Typed
    OBVIOUS
  <1> USE QuestionAssumption DEF QuestionInit
  <1>1. row \in RowType
    <2>1. Empty \in [Links -> 0..LastAttempt]
      BY DEF Empty
    <2>2. Received \in [state : States, version : Nat \ {0}, used : 0..Limit, chain : [Links -> 0..LastAttempt]]
      BY <2>1, NamedStates DEF Received
    <2> QED
      BY <2>2 DEF RowType
  <1>2. lease \in LeaseType
    BY DEF LeaseType, Free
  <1>3. ledger \in LedgerType
    BY DEF LedgerType
  <1>4. worker \in [Workers -> WorkerType] /\ \A w \in Workers : Sound(worker[w])
    BY IdleRecord
  <1>5. Departed
    BY IdleRecord DEF Departed
  <1> QED
    BY <1>1, <1>2, <1>3, <1>4, <1>5 DEF Typed

-----------------------------------------------------------------------------
(* One attempt executes a run.                                             *)

LEMMA ExecutingDrives ==
  ASSUME NEW m, Executing(m) PROVE m.pc \in Driving /\ m.pc # "idle"
  BY DEF Executing, Calling, Tools, Driving

\* Only an executing worker's attempt makes a call or produces a link.
LEMMA ActorsGrow ==
  ASSUME Typed, NEW w \in Workers, Work(w) \/ Crash(w) \/ Fault(w), NEW r \in Runs
  PROVE  Actors(r)' \subseteq Actors(r) \union
           (IF r = worker[w].run /\ Executing(worker[w]) THEN {worker[w].attempt} ELSE {})
  <1> DEFINE m == worker[w]
  <1>1. CASE UNCHANGED row /\ UNCHANGED ledger
    BY <1>1 DEF Actors
  <1>2. CASE \E n \in Nat : CallsAdded(w, n)
    <2>1. /\ UNCHANGED row /\ Executing(m)
          /\ \A q \in Runs : q # m.run => ledger'[q] = ledger[q]
          /\ ledger'[m.run].callers \subseteq ledger[m.run].callers \union {m.attempt}
      BY <1>2 DEF CallsAdded, Executing
    <2> QED
      BY <2>1 DEF Actors
  <1>3. CASE AcceptedWrite(w) /\ UNCHANGED ledger
    <2>1. \A q \in Runs : q # m.run => row'[q] = row[q]
      BY <1>3 DEF AcceptedWrite, Typed, RowType
    <2>2. Executing(m) \/ Offered(m) = {}
      <3>1. m.pc \in {"write", "block"}
        BY <1>3 DEF AcceptedWrite
      <3>2. m.links # {} => m.pc = "write" /\ m.state # "RECEIVED"
        BY <3>1, UnderWay DEF Sound, Closing
      <3> QED
        BY <3>2 DEF Executing, Offered
    <2>3. \A l \in Links : row'[m.run].chain[l] =
                             IF l \in Offered(m) THEN m.attempt ELSE row[m.run].chain[l]
      BY <1>3 DEF AcceptedWrite
    <2> QED
      BY <1>3, <2>1, <2>2, <2>3 DEF Actors
  <1> QED
    BY <1>1, <1>2, <1>3, WorkRow, WorkLedger

\* Who executes a run, or may begin to, is the last to drive it and the only one
\* who has done anything for it.
LEMMA DriverIsLast ==
  ASSUME Typed, Exec, NEW w \in Workers, Executing(worker[w]) \/ Enters(w)
  PROVE  LET m == worker[w] IN
         /\ m.run \in Runs /\ m.attempt \in Nat /\ m.attempt <= lease[m.run].attempt
         /\ LastDriven(m.run, m.attempt)
         /\ Actors(m.run) \subseteq {m.attempt}
  <1> DEFINE m == worker[w]
  <1>1. m.pc # "idle"
    BY ExecutingDrives DEF Enters, Driving
  <1>2. m.run \in Runs /\ m.attempt \in 1..LastAttempt
    BY <1>1, UnderWay
  <1>3. m.attempt <= lease[m.run].attempt
    BY <1>2 DEF Exec, OneToken
  <1>4. CASE Executing(m)
    BY <1>2, <1>3, <1>4 DEF Exec, ExecutorIsLast
  <1>5. CASE Enters(w)
    <2>1. lease[m.run].attempt = m.attempt /\ m.pc \in Driving /\ row[m.run].state # "RECEIVED"
      BY <1>5 DEF Enters, Alive
    <2>2. \A v \in Workers : worker[v].run = m.run => ~(worker[v].attempt > m.attempt)
      <3> SUFFICES ASSUME NEW v \in Workers, worker[v].run = m.run
                   PROVE  ~(worker[v].attempt > m.attempt)
        OBVIOUS
      <3>1. worker[v].attempt <= m.attempt
        BY <1>2, <2>1 DEF Exec, OneToken
      <3>2. worker[v].attempt \in Nat /\ m.attempt \in Nat
        BY <1>2, WorkerTyped DEF WorkerType
      <3> QED
        BY <3>1, <3>2
    <2>3. LastDriven(m.run, m.attempt)
      BY <2>1, <2>2 DEF LastDriven
    <2>4. ASSUME NEW a \in Actors(m.run) PROVE a = m.attempt
      <3>1. a \in 1..LastAttempt /\ a <= m.attempt /\ LastDriven(m.run, a)
        BY <1>2, <2>1 DEF Exec, ActorsAreLast, Actors
      <3>2. ~(m.attempt > a)
        BY <2>1, <3>1 DEF LastDriven
      <3> QED
        BY <1>2, <3>1, <3>2
    <2> QED
      BY <1>2, <1>3, <2>3, <2>4
  <1> QED
    BY <1>4, <1>5

LEMMA WorkExec ==
  ASSUME Typed, Exec, NEW w \in Workers, Work(w) \/ Crash(w) \/ Fault(w)
  PROVE  Exec'
  <1> DEFINE m == worker[w]
             x == worker'[w]
  <1>1. Typed'
    BY WorkTyped
  <1>2. /\ \A v \in Workers : v # w => worker'[v] = worker[v]
        /\ MovesTo(w, x)
    BY WorkMoves, MovedWorkers
  <1>3. /\ x.pc # "idle" => x.run = m.run /\ x.attempt = m.attempt
        /\ x.pc \in Driving => m.pc \in Driving
        /\ Executing(x) => Executing(m) \/ Enters(w)
    BY <1>2 DEF MovesTo
  <1>4. x.run \in Runs <=> x.pc # "idle"
    BY <1>1, QuestionAssumption DEF Typed, Sound, WorkerType
  <1>5. \A r \in Runs : lease'[r].attempt = lease[r].attempt
    BY WorkLease
  <1>6. \A r \in Runs : row[r].state # "RECEIVED" => row'[r].state # "RECEIVED"
    <2>1. CASE UNCHANGED row
      BY <2>1
    <2>2. CASE AcceptedWrite(w)
      BY <2>2 DEF AcceptedWrite, Typed, RowType
    <2> QED
      BY <2>1, <2>2, WorkRow
  <1>8. ASSUME NEW r \in Runs, NEW a, LastDriven(r, a) PROVE LastDriven(r, a)'
    <2>1. row'[r].state # "RECEIVED"
      BY <1>6, <1>8 DEF LastDriven
    <2>2. ASSUME NEW v \in Workers, worker'[v].run = r, worker'[v].attempt > a
          PROVE  worker'[v].pc \notin Driving
      BY <1>2, <1>3, <1>4, <1>8, <2>2 DEF LastDriven
    <2> QED
      BY <2>1, <2>2 DEF LastDriven
  <1>9. OneToken'
    BY <1>2, <1>3, <1>4, <1>5, QuestionAssumption DEF Exec, OneToken
  <1>10. Executing(m) \/ Enters(w) =>
           /\ m.run \in Runs /\ m.attempt \in Nat /\ m.attempt <= lease[m.run].attempt
           /\ LastDriven(m.run, m.attempt)
           /\ Actors(m.run) \subseteq {m.attempt}
    BY DriverIsLast
  <1>11. \A r \in Runs : Actors(r)' \subseteq Actors(r) \union
           (IF r = m.run /\ Executing(m) THEN {m.attempt} ELSE {})
    BY ActorsGrow
  <1>12. ActorsAreLast'
    <2> SUFFICES ASSUME NEW r \in Runs, NEW a \in Actors(r)'
                 PROVE  /\ a <= lease'[r].attempt
                        /\ LastDriven(r, a)'
                        /\ \A b \in Actors(r)' : a = b
      BY DEF ActorsAreLast
    <2>1. CASE r = m.run /\ Executing(m)
      <3>1. a = m.attempt /\ \A b \in Actors(r)' : b = m.attempt
        BY <1>10, <1>11, <2>1
      <3> QED
        BY <1>5, <1>8, <1>10, <2>1, <3>1
    <2>2. CASE ~(r = m.run /\ Executing(m))
      <3>1. Actors(r)' \subseteq Actors(r)
        BY <1>11, <2>2
      <3> QED
        BY <1>5, <1>8, <3>1 DEF Exec, ActorsAreLast
    <2> QED
      BY <2>1, <2>2
  <1>13. ExecutorIsLast'
    <2> SUFFICES ASSUME NEW v \in Workers, Executing(worker'[v])
                 PROVE  /\ LastDriven(worker[v].run, worker[v].attempt)'
                        /\ Actors(worker[v].run)' \subseteq {worker'[v].attempt}
      BY DEF ExecutorIsLast
    <2>1. CASE v = w
      <3>1. x.run = m.run /\ x.attempt = m.attempt /\ (Executing(m) \/ Enters(w))
        BY <1>3, <2>1, ExecutingDrives
      <3> QED
        BY <1>8, <1>10, <1>11, <2>1, <3>1
    <2>2. CASE v # w
      <3>1. worker'[v] = worker[v] /\ worker[v].pc \in Driving /\ worker[v].pc # "idle"
        BY <1>2, <2>2, ExecutingDrives
      <3>2. /\ worker[v].run \in Runs /\ worker[v].attempt \in 1..LastAttempt
            /\ LastDriven(worker[v].run, worker[v].attempt)
            /\ Actors(worker[v].run) \subseteq {worker[v].attempt}
        BY <3>1, UnderWay DEF Exec, ExecutorIsLast
      <3>3. ~(worker[v].run = m.run /\ Executing(m))
        <4> SUFFICES ASSUME worker[v].run = m.run, Executing(m) PROVE FALSE
          OBVIOUS
        <4>1. ~(m.attempt > worker[v].attempt)
          BY <3>2, ExecutingDrives DEF LastDriven
        <4>2. ~(worker[v].attempt > m.attempt)
          BY <1>10, <3>1 DEF LastDriven
        <4>3. m.attempt \in Nat /\ worker[v].attempt \in Nat
          BY <1>10, <3>2
        <4>4. m.attempt = worker[v].attempt
          BY <4>1, <4>2, <4>3
        <4> QED
          BY <2>2, <3>2, <4>4 DEF Exec, OneToken
      <3> QED
        BY <1>8, <1>11, <3>1, <3>2, <3>3
    <2> QED
      BY <2>1, <2>2
  <1> QED
    BY <1>9, <1>12, <1>13 DEF Exec

\* A run that was executed is claimed to be closed.
LEMMA ClaimExec ==
  ASSUME Typed, Looks, Exec, NEW w \in Workers, NEW r \in Runs, Claim(w, r)
  PROVE  Exec'
  <1> DEFINE x == worker'[w]
  <1>1. /\ \A v \in Workers : v # w => worker'[v] = worker[v]
        /\ ~Executing(x) /\ x.pc = Mode(r) /\ x.run = r /\ x.attempt = lease'[r].attempt
        /\ lease'[r].attempt = lease[r].attempt + 1
        /\ \A q \in Runs : q # r => lease'[q].attempt = lease[q].attempt
        /\ UNCHANGED <<row, ledger>>
    BY ClaimDoes
  <1>0. \A q \in Runs : Actors(q)' = Actors(q)
    BY <1>1 DEF Actors
  <1>2. \A q \in Runs : /\ lease[q].attempt \in Nat /\ lease'[q].attempt \in Nat
                        /\ lease[q].attempt <= lease'[q].attempt
    BY <1>1 DEF Typed, LeaseType
  <1>3. \A v \in Workers : worker[v].attempt \in Nat /\ worker[v].run \in Runs \union {NoRun}
    BY WorkerTyped DEF WorkerType
  <1>4. ASSUME NEW q \in Runs, NEW a, LastDriven(q, a) PROVE LastDriven(q, a)'
    <2>1. q = r => x.pc \notin Driving
      BY <1>1, <1>4 DEF LastDriven, Mode, Driving
    <2> QED
      BY <1>1, <1>4, <2>1 DEF LastDriven
  <1>5. OneToken'
    <2> SUFFICES ASSUME NEW u \in Workers, worker'[u].run \in Runs
                 PROVE  /\ worker'[u].attempt <= lease'[worker'[u].run].attempt
                        /\ \A v \in Workers \ {u} : worker'[v].run = worker'[u].run =>
                                                     worker'[v].attempt # worker'[u].attempt
      BY DEF OneToken
    <2>1. ASSUME NEW v \in Workers, v # w, worker[v].run = r
          PROVE  worker[v].attempt <= lease[r].attempt /\ worker[v].attempt # x.attempt
      <3>1. worker[v].attempt <= lease[r].attempt
        BY <2>1 DEF Exec, OneToken
      <3> QED
        BY <1>1, <1>2, <1>3, <3>1
    <2>2. CASE u = w
      <3>1. x.attempt <= lease'[r].attempt
        BY <1>1, <1>2
      <3>2. ASSUME NEW v \in Workers \ {w}, worker'[v].run = r PROVE worker'[v].attempt # x.attempt
        BY <1>1, <2>1, <3>2
      <3> QED
        BY <1>1, <2>2, <3>1, <3>2
    <2>3. CASE u # w
      <3>1. worker'[u] = worker[u] /\ worker[u].attempt <= lease[worker[u].run].attempt
        BY <1>1, <2>3 DEF Exec, OneToken
      <3>2. worker[u].attempt <= lease'[worker[u].run].attempt
        BY <1>2, <1>3, <3>1
      <3>3. ASSUME NEW v \in Workers \ {u}, worker'[v].run = worker'[u].run
            PROVE  worker'[v].attempt # worker'[u].attempt
        <4>1. CASE v = w
          BY <1>1, <2>1, <2>3, <3>1, <3>3, <4>1
        <4>2. CASE v # w
          BY <1>1, <3>1, <3>3, <4>2 DEF Exec, OneToken
        <4> QED
          BY <4>1, <4>2
      <3> QED
        BY <3>1, <3>2, <3>3
    <2> QED
      BY <2>2, <2>3
  <1>6. ExecutorIsLast'
    <2> SUFFICES ASSUME NEW v \in Workers, Executing(worker'[v])
                 PROVE  /\ LastDriven(worker[v].run, worker[v].attempt)'
                        /\ Actors(worker[v].run)' \subseteq {worker'[v].attempt}
      BY DEF ExecutorIsLast
    <2>1. v # w /\ worker'[v] = worker[v] /\ worker[v].run \in Runs
      BY <1>1, ExecutingDrives, UnderWay
    <2> QED
      BY <1>0, <1>4, <2>1 DEF Exec, ExecutorIsLast
  <1>7. ActorsAreLast'
    <2> SUFFICES ASSUME NEW q \in Runs, NEW a \in Actors(q)
                 PROVE  a <= lease'[q].attempt /\ LastDriven(q, a)' /\ \A b \in Actors(q) : a = b
      BY <1>0 DEF ActorsAreLast
    <2>1. a \in Nat /\ a <= lease[q].attempt /\ LastDriven(q, a) /\ \A b \in Actors(q) : a = b
      BY DEF Exec, ActorsAreLast, Actors
    <2>2. a <= lease'[q].attempt
      BY <1>2, <2>1
    <2> QED
      BY <1>4, <2>1, <2>2
  <1> QED
    BY <1>5, <1>6, <1>7 DEF Exec

\* Steps that move no worker, no lease's attempt and no state back to RECEIVED.
LEMMA RestExec ==
  ASSUME Typed, Exec, UNCHANGED <<worker, ledger>>,
         \A r \in Runs : lease'[r].attempt = lease[r].attempt,
         \A r \in Runs : row'[r].state = "RECEIVED" => row[r].state = "RECEIVED",
         \A r \in Runs : row'[r].chain = row[r].chain
  PROVE  Exec'
  <1>0. \A q \in Runs : Actors(q)' = Actors(q)
    BY DEF Actors
  <1>1. ASSUME NEW q \in Runs, NEW a, LastDriven(q, a) PROVE LastDriven(q, a)'
    BY <1>1 DEF LastDriven
  <1>2. OneToken'
    BY DEF Exec, OneToken
  <1>3. ExecutorIsLast'
    <2> SUFFICES ASSUME NEW v \in Workers, Executing(worker[v])
                 PROVE  /\ LastDriven(worker[v].run, worker[v].attempt)'
                        /\ Actors(worker[v].run)' \subseteq {worker[v].attempt}
      BY DEF ExecutorIsLast
    <2>1. worker[v].run \in Runs
      BY ExecutingDrives, UnderWay
    <2> QED
      BY <1>0, <1>1, <2>1 DEF Exec, ExecutorIsLast
  <1>4. ActorsAreLast'
    BY <1>0, <1>1 DEF Exec, ActorsAreLast
  <1> QED
    BY <1>2, <1>3, <1>4 DEF Exec

LEMMA ExecStep == Typed /\ Looks /\ Exec /\ [QuestionNext]_questionVars => Exec'
  <1> SUFFICES ASSUME Typed, Looks, Exec, [QuestionNext]_questionVars PROVE Exec'
    OBVIOUS
  <1>1. ASSUME NEW w \in Workers, Work(w) \/ Crash(w) \/ Fault(w) PROVE Exec'
    BY <1>1, WorkExec
  <1>2. ASSUME NEW w \in Workers, NEW r \in Runs, Claim(w, r) PROVE Exec'
    BY <1>2, ClaimExec
  <1>3. ASSUME NEW r \in Runs, Expire(r) PROVE Exec'
    BY <1>3, ExpireDoes, RestExec
  <1>4. ASSUME NEW r \in Runs, ClarificationExpires(r) PROVE Exec'
    <2>1. \A q \in Runs : /\ row'[q].state = "RECEIVED" => row[q].state = "RECEIVED"
                          /\ row'[q].chain = row[q].chain
      <3>1. row'[r].state = "CLARIFICATION_EXPIRED" /\ row'[r].chain = row[r].chain
            /\ row' = [row EXCEPT ![r] = row'[r]]
        BY <1>4, ClarificationExpiresDoes
      <3>2. \A q \in Runs : q # r => row'[q] = row[q]
        BY <3>1 DEF Typed, RowType
      <3> QED
        BY <3>1, <3>2
    <2>2. UNCHANGED <<worker, ledger, lease>>
      BY <1>4 DEF ClarificationExpires
    <2>3. /\ \A q \in Runs : row'[q].state = "RECEIVED" => row[q].state = "RECEIVED"
          /\ \A q \in Runs : row'[q].chain = row[q].chain
          /\ \A q \in Runs : lease'[q].attempt = lease[q].attempt
      BY <2>1, <2>2
    <2> QED
      BY <2>2, <2>3, RestExec
  <1>5. ASSUME NEW r \in Runs, RolesChange(r) \/ SubmitClarification(r) PROVE Exec'
    BY <1>5, RestExec DEF RolesChange, SubmitClarification
  <1>6. CASE UNCHANGED questionVars
    BY <1>6, RestExec DEF questionVars
  <1>7. ASSUME NEW w \in Workers, NEW r \in Runs, Look(w, r) \/ Miss(w, r) PROVE Exec'
    BY <1>7, RestExec DEF Look, Miss
  <1> QED
    BY <1>1, <1>2, <1>3, <1>4, <1>5, <1>6, <1>7 DEF QuestionNext

LEMMA ExecInit == QuestionInit => Exec
  <1> SUFFICES ASSUME QuestionInit PROVE Exec
    OBVIOUS
  <1>1. \A w \in Workers : worker[w].run = NoRun /\ ~Executing(worker[w])
    BY IdleRecord DEF QuestionInit
  <1>2. \A r \in Runs : Actors(r) = {}
    BY DEF QuestionInit, Received, Empty, Actors
  <1> QED
    BY <1>1, <1>2, QuestionAssumption DEF Exec, OneToken, ExecutorIsLast, ActorsAreLast

-----------------------------------------------------------------------------
(* The books stay in order.                                                *)

LEMMA OneExecutor ==
  ASSUME Typed, Exec, NEW v \in Workers, NEW w \in Workers, v # w,
         Executing(worker[v]), Executing(worker[w])
  PROVE  worker[v].run # worker[w].run
  <1> SUFFICES ASSUME worker[v].run = worker[w].run PROVE FALSE
    OBVIOUS
  <1>1. /\ worker[v].pc \in Driving /\ worker[w].pc \in Driving
        /\ worker[v].run \in Runs
        /\ worker[v].attempt \in Nat /\ worker[w].attempt \in Nat
        /\ LastDriven(worker[v].run, worker[v].attempt)
        /\ LastDriven(worker[v].run, worker[w].attempt)
    BY ExecutingDrives, DriverIsLast
  <1>2. ~(worker[v].attempt > worker[w].attempt) /\ ~(worker[w].attempt > worker[v].attempt)
    BY <1>1 DEF LastDriven
  <1>3. worker[v].attempt = worker[w].attempt
    BY <1>1, <1>2
  <1> QED
    BY <1>1, <1>3 DEF Exec, OneToken

LEMMA BooksFitRun ==
  ASSUME Typed, Exec, Books, NEW w \in Workers, worker[w].pc # "idle"
  PROVE  FitsRun(w)
  <1>1. worker[w].run \in Runs
    BY UnderWay
  <1>2. Executing(worker[w]) \/ Enters(w) =>
          ledger[worker[w].run].callers \subseteq {worker[w].attempt}
    BY <1>1, DriverIsLast DEF Typed, LedgerType, Actors
  <1> QED
    BY <1>1, <1>2 DEF Books, FitsRun

\* A worker that writes its run as blocked, or before it was ever driven, is not
\* one that executes it; all others who write it are.
LEMMA WriterKnows ==
  ASSUME Typed, Exec, Books, NEW w \in Workers, AcceptedWrite(w)
  PROVE  LET m == worker[w]  r == worker[w].run IN
         /\ m.pc # "idle" /\ r \in Runs
         /\ row[r].used <= m.used /\ m.used <= ledger[r].calls
         /\ row[r].state # "RECEIVED" /\ row'[r].state # "BLOCKED" => Executing(m)
  <1> DEFINE m == worker[w]
             r == worker[w].run
  <1>1. /\ m.pc \in {"write", "block"} /\ m.pc # "idle" /\ r \in Runs
        /\ m.version = row[r].version /\ row'[r].state = m.target
        /\ row'[r].used = m.used /\ row'[r].used \in row[r].used..Limit
    BY DEF AcceptedWrite
  <1>2. Fits(m, row[r], ledger[r].calls, ledger[r].callers)
    BY <1>1 DEF Books
  <1>3. m.pc = "block" => m.target = "BLOCKED"
    BY <1>1, UnderWay DEF Sound
  <1>4. m.used <= ledger[r].calls
    BY <1>1, <1>2, Numbers DEF Fits
  <1>5. row[r].used <= m.used
    BY <1>1, Numbers
  <1> QED
    BY <1>1, <1>2, <1>3, <1>4, <1>5 DEF Fits, Executing

\* The others' books still fit when a worker makes calls or writes.
LEMMA OthersFitCalls ==
  ASSUME Typed, Exec, Books, NEW w \in Workers, NEW v \in Workers, v # w,
         worker[v].pc # "idle", worker[v].run = worker[w].run,
         NEW n \in Nat, CallsAdded(w, n)
  PROVE  LET r == worker[v].run IN Fits(worker[v], row'[r], ledger'[r].calls, ledger'[r].callers)
  <1> DEFINE m == worker[w]
             o == worker[v]
             r == worker[v].run
  <1>1. /\ UNCHANGED row /\ Executing(m) /\ ledger'[r].calls = ledger[r].calls + n
        /\ ledger'[r].callers = ledger[r].callers \union (IF n > 0 THEN {m.attempt} ELSE {})
    BY DEF CallsAdded, Executing
  <1>2. ~Calling(o)
    BY <1>1, OneExecutor DEF Executing
  <1>3. m.attempt # o.attempt
    BY UnderWay DEF Exec, OneToken
  <1>4. Fits(o, row[r], ledger[r].calls, ledger[r].callers)
    BY DEF Books
  <1>5. ledger'[r].callers \subseteq {o.attempt} =>
          ledger'[r].calls = ledger[r].calls /\ ledger[r].callers \subseteq {o.attempt}
    <2>1. CASE n = 0
      BY <1>1, <2>1, Numbers
    <2>2. CASE n > 0
      BY <1>1, <1>3, <2>2
    <2> QED
      BY <2>1, <2>2
  <1>6. o.used \in Nat /\ o.owed \in Nat /\ ledger[r].calls \in Nat
    BY Numbers
  <1> QED
    BY <1>1, <1>2, <1>4, <1>5, <1>6 DEF Fits

LEMMA OthersFitWrite ==
  ASSUME Typed, Exec, Books, NEW w \in Workers, NEW v \in Workers, v # w,
         worker[v].pc # "idle", worker[v].run = worker[w].run,
         AcceptedWrite(w), UNCHANGED ledger
  PROVE  LET r == worker[v].run IN Fits(worker[v], row'[r], ledger'[r].calls, ledger'[r].callers)
  <1> DEFINE m == worker[w]
             o == worker[v]
             r == worker[v].run
  <1>1. /\ row'[r].version = row[r].version + 1 /\ row'[r].used = m.used
        /\ row[r].used <= m.used /\ m.used <= ledger[r].calls
        /\ row[r].state # "RECEIVED" /\ row'[r].state # "BLOCKED" => Executing(m)
    BY WriterKnows DEF AcceptedWrite
  <1>2. /\ o.version \in Nat /\ o.used \in Nat /\ o.owed \in Nat /\ ledger[r].calls \in Nat
        /\ row[r].version \in Nat /\ row[r].used \in Nat
    BY Numbers
  <1>3. Fits(o, row[r], ledger[r].calls, ledger[r].callers)
    BY DEF Books
  <1>4. o.version <= row[r].version
    BY <1>3 DEF Fits
  <1>5. o.version <= row'[r].version /\ o.version # row'[r].version
    BY <1>1, <1>2, <1>4
  <1>6. Calling(o) => row'[r].state = "BLOCKED"
    <2>1. Calling(o) => ~Executing(m) /\ row[r].state # "RECEIVED"
      BY OneExecutor DEF Executing, Exec, ExecutorIsLast, LastDriven
    <2> QED
      BY <1>1, <2>1
  <1>7. ledger[r].calls = row[r].used => ledger[r].calls = row'[r].used
    <2>1. m.used \in Nat
      BY WriterKnows, Numbers
    <2> QED
      BY <1>1, <1>2, <2>1
  <1> QED
    BY <1>3, <1>5, <1>6, <1>7 DEF Fits

LEMMA WorkFits ==
  ASSUME Typed, Exec, Books, NEW w \in Workers, Work(w) \/ Crash(w) \/ Fault(w),
         NEW v \in Workers, worker'[v].pc # "idle"
  PROVE  LET r == worker'[v].run IN Fits(worker'[v], row'[r], ledger'[r].calls, ledger'[r].callers)
  <1>1. CASE v = w
    <2>1. /\ worker'[w].run = worker[w].run /\ Sound(worker'[w]) /\ MovesTo(w, worker'[w])
      BY <1>1, WorkMoves, MovedWorkers DEF MovesTo
    <2>2. worker[w].pc # "idle"
      BY <1>1, <2>1 DEF Typed, Sound
    <2> QED
      BY <1>1, <2>1, <2>2, BooksFitRun DEF MovesTo
  <1>2. CASE v # w
    <2>1. worker'[v] = worker[v]
      BY <1>2, WorkMoves, MovedWorkers
    <2> DEFINE r == worker[v].run
    <2>2. r \in Runs /\ Fits(worker[v], row[r], ledger[r].calls, ledger[r].callers)
      BY <2>1, UnderWay DEF Books
    <2>3. CASE UNCHANGED row /\ UNCHANGED ledger
      BY <2>1, <2>2, <2>3
    <2>4. CASE \E n \in Nat : CallsAdded(w, n)
      <3>1. CASE r = worker[w].run
        BY <1>2, <2>1, <2>4, <3>1, OthersFitCalls
      <3>2. CASE r # worker[w].run
        BY <2>1, <2>2, <2>4, <3>2 DEF CallsAdded
      <3> QED
        BY <3>1, <3>2
    <2>5. CASE AcceptedWrite(w) /\ UNCHANGED ledger
      <3>1. CASE r = worker[w].run
        BY <1>2, <2>1, <2>5, <3>1, OthersFitWrite
      <3>2. CASE r # worker[w].run
        <4>1. row'[r] = row[r]
          BY <2>2, <2>5, <3>2 DEF AcceptedWrite, Typed, RowType
        <4> QED
          BY <2>1, <2>2, <2>5, <4>1
      <3> QED
        BY <3>1, <3>2
    <2> QED
      BY <2>3, <2>4, <2>5, WorkRow, WorkLedger
  <1> QED
    BY <1>1, <1>2

LEMMA WorkBalanced ==
  ASSUME Typed, Exec, Books, NEW w \in Workers, Work(w) \/ Crash(w) \/ Fault(w), NEW r \in Runs
  PROVE  Balance(row'[r], ledger'[r].calls, ledger'[r].callers)
  <1> DEFINE m == worker[w]
             x == worker'[w]
  <1>1. Balance(row[r], ledger[r].calls, ledger[r].callers)
    BY DEF Books
  <1>2. /\ ledger[r].calls \in Nat /\ row[r].used \in Nat /\ Limit \in Nat
    BY QuestionAssumption DEF Typed, LedgerType, RowType
  <1>3. CASE UNCHANGED row /\ UNCHANGED ledger
    BY <1>1, <1>3
  <1>4. CASE (\E n \in Nat : CallsAdded(w, n)) /\ Calling(x)
    <2>1. PICK n \in Nat : CallsAdded(w, n)
      BY <1>4
    <2>2. CASE r # m.run
      BY <1>1, <2>1, <2>2 DEF CallsAdded
    <2>3. CASE r = m.run
      <3>1. x.pc # "idle" /\ x \in WorkerType /\ Sound(x) /\ x.run = r
        <4>1. x.pc # "idle"
          BY <1>4 DEF Calling, Tools
        <4> QED
          BY <2>3, <4>1, WorkMoves, MovedWorkers DEF MovesTo
      <3>2. Fits(x, row'[r], ledger'[r].calls, ledger'[r].callers)
        BY <3>1, WorkFits
      <3>3. /\ ledger'[r].calls = x.used + x.owed
            /\ row'[r].state \notin Terminal \ {"BLOCKED"}
        BY <1>4, <3>2 DEF Fits
      <3>4. ledger'[r].calls <= Limit
        BY <3>1, <3>3 DEF Sound
      <3>5. /\ UNCHANGED row /\ ledger'[r].calls = ledger[r].calls + n
            /\ ledger'[r].callers = ledger[r].callers \union (IF n > 0 THEN {m.attempt} ELSE {})
        BY <2>1, <2>3 DEF CallsAdded
      <3>6. row'[r].used <= ledger'[r].calls
        BY <1>1, <1>2, <3>5 DEF Balance
      <3>7. ledger'[r].callers = {} => ledger'[r].calls = 0
        <4>1. CASE n = 0
          BY <1>1, <1>2, <3>5, <4>1 DEF Balance
        <4>2. CASE n > 0
          BY <3>5, <4>2
        <4> QED
          BY <4>1, <4>2
      <3> QED
        BY <3>3, <3>4, <3>6, <3>7 DEF Balance
    <2> QED
      BY <2>2, <2>3
  <1>5. CASE AcceptedWrite(w) /\ UNCHANGED ledger
    <2>1. CASE r # m.run
      <3>1. row'[r] = row[r]
        BY <1>5, <2>1 DEF AcceptedWrite, Typed, RowType
      <3> QED
        BY <1>1, <1>5, <3>1
    <2>2. CASE r = m.run
      <3>1. /\ m.pc # "idle" /\ m.pc \in {"write", "block"} /\ m.used <= ledger[r].calls
            /\ row'[r].used = m.used /\ row'[r].state = m.target /\ m.version = row[r].version
            /\ row[r].state = "RECEIVED" /\ m.target \in Terminal => m.target = "BLOCKED"
            /\ row[r].state # "RECEIVED" /\ m.target # "BLOCKED" => Executing(m)
        BY <1>5, <2>2, WriterKnows DEF AcceptedWrite
      <3>2. m.target \in Terminal \ {"BLOCKED"} => m.used = ledger[r].calls
        <4> SUFFICES ASSUME m.target \in Terminal \ {"BLOCKED"} PROVE m.used = ledger[r].calls
          OBVIOUS
        <4>1. Executing(m)
          BY <3>1
        <4>2. m.pc = "write" /\ m.owed = 0
          <5>1. "ANSWER_VERIFYING" \notin Terminal
            BY DEF Terminal, Clarification
          <5> QED
            BY <3>1, <5>1, UnderWay DEF Sound
        <4>3. ledger[r].calls = m.used + m.owed
          BY <2>2, <3>1, <4>1, <4>2, BooksFitRun DEF FitsRun, Fits
        <4> QED
          BY <2>2, <3>1, <4>2, <4>3, Numbers
      <3> QED
        BY <1>1, <1>5, <3>1, <3>2 DEF Balance
    <2> QED
      BY <2>1, <2>2
  <1> QED
    BY <1>3, <1>4, <1>5, WorkRow, WorkLedger

LEMMA WorkBooks ==
  ASSUME Typed, Exec, Books, NEW w \in Workers, Work(w) \/ Crash(w) \/ Fault(w)
  PROVE  Books'
  BY WorkFits, WorkBalanced DEF Books

\* A link of the query's result is put into the chain by the one who queried.
LEMMA WorkEarned ==
  ASSUME Typed, Earned, NEW w \in Workers, Work(w) \/ Crash(w) \/ Fault(w)
  PROVE  Earned'
  <1> DEFINE m == worker[w]
  <1>1. \A r \in Runs : ledger[r].queried \subseteq ledger'[r].queried
    BY WorkLedger DEF CallsAdded
  <1>2. ASSUME NEW v \in Workers, worker'[v].pc # "idle"
        PROVE  Queried(worker'[v], ledger'[worker'[v].run].queried)
    <2>1. CASE v = w
      <3>1. /\ worker'[w].run = m.run /\ Sound(worker'[w]) /\ MovesTo(w, worker'[w])
        BY <1>2, <2>1, WorkMoves, MovedWorkers DEF MovesTo
      <3>2. m.pc # "idle"
        BY <1>2, <2>1, <3>1 DEF Typed, Sound
      <3> QED
        BY <1>2, <2>1, <3>1, <3>2 DEF Earned, MovesTo
    <2>2. CASE v # w
      <3>1. worker'[v] = worker[v]
        BY <2>2, WorkMoves, MovedWorkers
      <3>2. Queried(worker[v], ledger[worker[v].run].queried) /\ worker[v].run \in Runs
        BY <1>2, <3>1, UnderWay DEF Earned
      <3> QED
        BY <1>1, <3>1, <3>2 DEF Queried
    <2> QED
      BY <2>1, <2>2
  <1>3. ASSUME NEW r \in Runs
        PROVE  /\ row'[r].chain["result"] \in ledger'[r].queried \union {0}
               /\ row'[r].state = "ANSWERED" => \A l \in Links : row'[r].chain[l] # 0
    <2>1. /\ row[r].chain["result"] \in ledger'[r].queried \union {0}
          /\ row[r].state = "ANSWERED" => \A l \in Links : row[r].chain[l] # 0
      BY <1>1 DEF Earned
    <2>2. CASE row'[r] = row[r]
      BY <2>1, <2>2
    <2>3. CASE AcceptedWrite(w) /\ r = m.run
      <3>1. m.pc # "idle"
        BY <2>3 DEF AcceptedWrite
      <3>2. "result" \in Offered(m) => m.attempt \in ledger[r].queried
        BY <2>3, <3>1 DEF Earned, Queried, Offered
      <3>3. "result" \in Links
        BY DEF Links
      <3> QED
        BY <1>1, <2>1, <2>3, <3>2, <3>3 DEF AcceptedWrite
    <2>4. CASE AcceptedWrite(w) /\ r # m.run
      <3>1. row'[r] = row[r]
        BY <2>4 DEF AcceptedWrite, Typed, RowType
      <3> QED
        BY <2>1, <3>1
    <2> QED
      BY <2>2, <2>3, <2>4, WorkRow
  <1> QED
    BY <1>2, <1>3 DEF Earned

\* A run is claimed again by an attempt nobody has called for: the one who may
\* drive it knows that nothing was spent.
LEMMA ClaimBooks ==
  ASSUME Typed, Looks, Exec, Books, Earned, NEW w \in Workers, NEW r \in Runs, Claim(w, r)
  PROVE  Books' /\ Earned'
  <1> DEFINE x == worker'[w]
  <1>1. /\ \A v \in Workers : v # w => worker'[v] = worker[v]
        /\ x.pc = Mode(r) /\ x.run = r /\ x.attempt = lease'[r].attempt
        /\ lease'[r].attempt = lease[r].attempt + 1
        /\ x.version = 0 /\ x.used = 0 /\ x.owed = 0 /\ x.links = {}
        /\ UNCHANGED <<row, ledger>>
    BY ClaimDoes
  <1>2. Mode(r) \in {"resume", "close"}
    BY DEF Mode
  <1>3. /\ row[r].version \in Nat \ {0} /\ row[r].used \in Nat /\ ledger[r].calls \in Nat
        /\ lease[r].attempt \in Nat /\ ledger[r].callers \subseteq 1..LastAttempt
    <2>1. row[r].version \in Nat \ {0} /\ row[r].used \in Nat
      BY QuestionAssumption DEF Typed, RowType
    <2>2. ledger[r].calls \in Nat /\ ledger[r].callers \subseteq 1..LastAttempt
      BY DEF Typed, LedgerType
    <2>3. lease[r].attempt \in Nat
      BY DEF Typed, LeaseType
    <2> QED
      BY <2>1, <2>2, <2>3
  <1>4. Balance(row[r], ledger[r].calls, ledger[r].callers)
    BY DEF Books
  <1> HIDE DEF x
  <1>5. ledger[r].callers \subseteq {x.attempt} => ledger[r].calls = row[r].used
    <2>1. ASSUME NEW a \in ledger[r].callers PROVE a # x.attempt
      <3>1. a \in Nat /\ a <= lease[r].attempt
        BY <1>3 DEF Exec, ActorsAreLast, Actors
      <3> QED
        BY <1>1, <1>3, <3>1
    <2>2. ledger[r].callers = {} => ledger[r].calls = row[r].used
      BY <1>3, <1>4 DEF Balance
    <2> QED
      BY <2>1, <2>2
  <1>6. Fits(x, row[r], ledger[r].calls, ledger[r].callers)
    <2>1. x.pc \in {"resume", "close"} /\ x.version = 0 /\ x.used = 0 /\ x.owed = 0
      BY <1>1, <1>2
    <2> QED
      BY <1>3, <1>5, <2>1 DEF Fits, Calling, Tools
  <1>7. Queried(x, ledger[r].queried)
    BY <1>1, <1>2 DEF Queried, Tools
  <1>8. ASSUME NEW v \in Workers, worker'[v].pc # "idle"
        PROVE  /\ Fits(worker'[v], row[worker'[v].run], ledger[worker'[v].run].calls,
                       ledger[worker'[v].run].callers)
               /\ Queried(worker'[v], ledger[worker'[v].run].queried)
    <2>1. CASE v = w
      BY <1>1, <1>6, <1>7, <2>1 DEF x
    <2>2. CASE v # w
      BY <1>1, <1>8, <2>2 DEF Books, Earned
    <2> QED
      BY <2>1, <2>2
  <1>9. Books'
    BY <1>1, <1>8 DEF Books
  <1>10. Earned'
    BY <1>1, <1>8 DEF Earned
  <1> QED
    BY <1>9, <1>10

LEMMA LapseBooks ==
  ASSUME Typed, Books, Earned, NEW r \in Runs, ClarificationExpires(r)
  PROVE  Books' /\ Earned'
  <1>1. /\ row[r].state = "CLARIFICATION_REQUIRED" /\ row'[r].state = "CLARIFICATION_EXPIRED"
        /\ row'[r].used = row[r].used /\ row'[r].chain = row[r].chain
        /\ row'[r].version = row[r].version + 1
        /\ row' = [row EXCEPT ![r] = row'[r]]
    BY ClarificationExpiresDoes
  <1>2. UNCHANGED <<worker, ledger>>
    BY DEF ClarificationExpires
  <1>3. \A q \in Runs : q # r => row'[q] = row[q]
    BY <1>1 DEF Typed, RowType
  <1>4. {"CLARIFICATION_REQUIRED", "CLARIFICATION_EXPIRED"} \subseteq Terminal \ {"BLOCKED"}
    BY DEF Terminal, Clarification
  <1>5. ASSUME NEW v \in Workers, worker[v].pc # "idle"
        PROVE  Fits(worker[v], row'[worker[v].run], ledger[worker[v].run].calls,
                    ledger[worker[v].run].callers)
    <2> DEFINE o == worker[v]
    <2>1. /\ o.run \in Runs
          /\ Fits(o, row[o.run], ledger[o.run].calls, ledger[o.run].callers)
      BY <1>5, UnderWay DEF Books
    <2>2. CASE o.run # r
      BY <1>3, <2>1, <2>2
    <2>3. CASE o.run = r
      <3>1. o.version \in Nat /\ row[r].version \in Nat /\ o.version <= row[r].version
        BY <1>5, <2>1, <2>3, Numbers DEF Fits
      <3>2. o.version <= row'[r].version /\ o.version # row'[r].version
        BY <1>1, <3>1
      <3>3. ~Calling(o)
        BY <1>1, <1>4, <2>1, <2>3 DEF Fits
      <3> QED
        BY <1>1, <2>1, <2>3, <3>2, <3>3 DEF Fits
    <2> QED
      BY <2>2, <2>3
  <1>6. ASSUME NEW q \in Runs PROVE Balance(row'[q], ledger[q].calls, ledger[q].callers)
    <2>1. Balance(row[q], ledger[q].calls, ledger[q].callers)
      BY DEF Books
    <2> QED
      BY <1>1, <1>3, <1>4, <2>1 DEF Balance
  <1>7. Books'
    BY <1>2, <1>5, <1>6 DEF Books
  <1>8. \A q \in Runs : row'[q].chain = row[q].chain /\ (row'[q].state = "ANSWERED" => row[q].state = "ANSWERED")
    BY <1>1, <1>3
  <1>9. Earned'
    BY <1>2, <1>8 DEF Earned
  <1> QED
    BY <1>7, <1>9

LEMMA RestBooks ==
  ASSUME Books, Earned, UNCHANGED <<row, worker, ledger>>
  PROVE  Books' /\ Earned'
  BY DEF Books, Earned

LEMMA BooksStep ==
  Typed /\ Looks /\ Exec /\ Books /\ Earned /\ [QuestionNext]_questionVars => Books' /\ Earned'
  <1> SUFFICES ASSUME Typed, Looks, Exec, Books, Earned, [QuestionNext]_questionVars
               PROVE  Books' /\ Earned'
    OBVIOUS
  <1>1. ASSUME NEW w \in Workers, Work(w) \/ Crash(w) \/ Fault(w) PROVE Books' /\ Earned'
    BY <1>1, WorkBooks, WorkEarned
  <1>2. ASSUME NEW w \in Workers, NEW r \in Runs, Claim(w, r) PROVE Books' /\ Earned'
    BY <1>2, ClaimBooks
  <1>3. ASSUME NEW r \in Runs, ClarificationExpires(r) PROVE Books' /\ Earned'
    BY <1>3, LapseBooks
  <1>4. ASSUME NEW r \in Runs, Expire(r) \/ RolesChange(r) \/ SubmitClarification(r)
        PROVE  Books' /\ Earned'
    BY <1>4, RestBooks DEF Expire, RolesChange, SubmitClarification
  <1>5. CASE UNCHANGED questionVars
    BY <1>5, RestBooks DEF questionVars
  <1>6. ASSUME NEW w \in Workers, NEW r \in Runs, Look(w, r) \/ Miss(w, r)
        PROVE  Books' /\ Earned'
    BY <1>6, RestBooks DEF Look, Miss
  <1> QED
    BY <1>1, <1>2, <1>3, <1>4, <1>5, <1>6 DEF QuestionNext

LEMMA BooksInit == QuestionInit => Books /\ Earned
  <1> SUFFICES ASSUME QuestionInit PROVE Books /\ Earned
    OBVIOUS
  <1>1. \A w \in Workers : worker[w].pc = "idle"
    BY IdleRecord DEF QuestionInit
  <1>2. \A r \in Runs : /\ row[r].state = "RECEIVED" /\ row[r].used = 0
                        /\ ledger[r].calls = 0 /\ ledger[r].callers = {}
                        /\ row[r].chain["result"] = 0
    BY DEF QuestionInit, Received, Empty, Links
  <1>3. "RECEIVED" \notin Terminal
    BY DEF Terminal, Clarification
  <1>4. Books
    BY <1>1, <1>2, <1>3, QuestionAssumption DEF Books, Balance
  <1>5. Earned
    BY <1>1, <1>2 DEF Earned
  <1> QED
    BY <1>4, <1>5

\* Nobody has found a run yet.
LEMMA LooksInit == QuestionInit => Looks
  <1> SUFFICES ASSUME QuestionInit PROVE Looks
    OBVIOUS
  <1>1. \A r \in Runs : Lookers(r) = {}
    BY QuestionAssumption DEF QuestionInit, Lookers
  <1>2. Cardinality({}) = 0
    BY FS_EmptySet
  <1>3. seen \in [Workers -> Runs \union {NoRun}]
    BY DEF QuestionInit
  <1>4. \A r \in Runs : lease[r].attempt = 0
    BY DEF QuestionInit, Free
  <1>5. \A r \in Runs : lease[r].attempt + Cardinality(Lookers(r)) <= LastAttempt
    BY <1>1, <1>2, <1>4, LastAttemptNat
  <1> QED
    BY <1>3, <1>5 DEF Looks

\* A run is found or missed by one worker, and claimed by one that had found it.
LEMMA FoundStep ==
  ASSUME Typed, Looks, NEW w \in Workers, NEW r \in Runs,
         Look(w, r) \/ Claim(w, r) \/ Miss(w, r)
  PROVE  Looks'
  <1>1. seen' \in [Workers -> Runs \union {NoRun}]
    BY DEF Look, Claim, Miss, Looks
  <1>2. \A q \in Runs : /\ IsFiniteSet(Lookers(q)) /\ Cardinality(Lookers(q)) \in Nat
                        /\ Cardinality(Lookers(q)) <= Cardinality(Workers)
    BY QuestionAssumption, FS_Subset, FS_CardinalityType DEF Lookers
  <1>3. \A q \in Runs : lease[q].attempt \in Nat
    BY DEF Typed, LeaseType
  <1>4. ASSUME NEW q \in Runs, q # r
        PROVE  lease'[q].attempt = lease[q].attempt /\ Lookers(q)' = Lookers(q)
    <2>1. lease'[q] = lease[q]
      BY <1>4 DEF Look, Claim, Miss, Typed, LeaseType
    <2>2. \A v \in Workers : seen'[v] = q <=> seen[v] = q
      BY <1>4, QuestionAssumption DEF Look, Claim, Miss, Looks
    <2> QED
      BY <2>1, <2>2 DEF Lookers
  <1>5. lease'[r].attempt + Cardinality(Lookers(r)') <= LastAttempt
    <2>1. CASE Look(w, r)
      <3>1. lease'[r].attempt = lease[r].attempt /\ lease[r].attempt <= MaxAttempts - 1
        BY <1>3, <2>1 DEF Look, Claimable, Within, MaxAttempts
      <3>2. Cardinality(Lookers(r)') \in Nat /\ Cardinality(Lookers(r)') <= Cardinality(Workers)
        BY QuestionAssumption, FS_Subset, FS_CardinalityType DEF Lookers
      <3>3. Cardinality(Workers) \in Nat
        BY QuestionAssumption, FS_CardinalityType
      <3> QED
        BY <1>3, <3>1, <3>2, <3>3 DEF LastAttempt, MaxAttempts
    <2>2. CASE Claim(w, r)
      <3>1. lease'[r].attempt = lease[r].attempt + 1
        BY <2>2, ClaimDoes
      <3>2. w \in Lookers(r) /\ Lookers(r)' = Lookers(r) \ {w}
        BY <2>2, QuestionAssumption DEF Claim, Lookers, Looks
      <3>3. Cardinality(Lookers(r) \ {w}) = Cardinality(Lookers(r)) - 1
        BY <1>2, <3>2, FS_RemoveElement
      <3> QED
        BY <1>2, <1>3, <3>1, <3>2, <3>3 DEF Looks
    <2>3. CASE Miss(w, r)
      <3>1. lease' = lease /\ Lookers(r)' = Lookers(r) \ {w} /\ w \in Lookers(r)
        BY <2>3, QuestionAssumption DEF Miss, Lookers, Looks
      <3>2. Cardinality(Lookers(r) \ {w}) = Cardinality(Lookers(r)) - 1
        BY <1>2, <3>1, FS_RemoveElement
      <3> QED
        BY <1>2, <1>3, <3>1, <3>2 DEF Looks
    <2> QED
      BY <2>1, <2>2, <2>3
  <1>6. \A q \in Runs : lease'[q].attempt + Cardinality(Lookers(q)') <= LastAttempt
    BY <1>4, <1>5 DEF Looks
  <1> QED
    BY <1>1, <1>6 DEF Looks

\* Every other step leaves the claims under way and the attempts alone.
LEMMA LooksStep == Typed /\ Looks /\ [QuestionNext]_questionVars => Looks'
  <1> SUFFICES ASSUME Typed, Looks, [QuestionNext]_questionVars PROVE Looks'
    OBVIOUS
  <1>1. ASSUME UNCHANGED seen, \A r \in Runs : lease'[r].attempt = lease[r].attempt PROVE Looks'
    <2>1. \A r \in Runs : Lookers(r)' = Lookers(r)
      BY <1>1 DEF Lookers
    <2> QED
      BY <1>1, <2>1 DEF Looks
  <1>2. ASSUME NEW w \in Workers, Work(w) \/ Crash(w) \/ Fault(w) PROVE Looks'
    <2>1. UNCHANGED seen
      <3>1. CASE Drive(w)
        BY <3>1 DEF Drive, OnlyWorker, Resume, Stop, Hop, OutOfScope, Enter, Finalize, Think, Charged,
           Propose, RunTool, Accept, Clarify, GiveUp, Compose, ComposeFails, Record, Reload, Write,
           WriteRefused, ProjectionRefused, PinRefused
      <3> QED
        BY <1>2, <3>1 DEF Work, Close, Block, Release, LeaseLost, Crash, Fault, OnlyWorker
    <2>2. \A r \in Runs : lease'[r].attempt = lease[r].attempt
      BY <1>2, WorkLease
    <2> QED
      BY <1>1, <2>1, <2>2
  <1>3. ASSUME NEW r \in Runs, Expire(r) PROVE Looks'
    BY <1>1, <1>3, ExpireDoes DEF Expire
  <1>4. ASSUME NEW r \in Runs, RolesChange(r) \/ ClarificationExpires(r) \/ SubmitClarification(r)
        PROVE  Looks'
    BY <1>1, <1>4 DEF RolesChange, ClarificationExpires, SubmitClarification
  <1>5. CASE UNCHANGED questionVars
    BY <1>1, <1>5 DEF questionVars
  <1> QED
    BY <1>2, <1>3, <1>4, <1>5, FoundStep DEF QuestionNext

\* The inductive invariant: types, who executes a run, and the books of all.
THEOREM QuestionInvariant == QuestionSpec => []QuestionInv
  <1>1. QuestionInit => QuestionInv
    BY TypedInit, LooksInit, ExecInit, BooksInit DEF QuestionInv
  <1>2. QuestionInv /\ [QuestionNext]_questionVars => QuestionInv'
    BY TypedStep, LooksStep, ExecStep, BooksStep DEF QuestionInv
  <1> QED
    BY <1>1, <1>2, PTL DEF QuestionSpec

-----------------------------------------------------------------------------
\* Runs, leases and workers stay in their types: no run is claimed more often than
\* twice and once by every worker, since claim_question_run compares the attempt
\* it finds and not the one it increments; no recorded budget exceeds its limit,
\* and a worker's memory of both fits, through crashes, failed calls and lost leases.
THEOREM QuestionTypeCorrect == QuestionSpec => []QuestionTypeOK
  <1>1. QuestionInv => QuestionTypeOK
    <2> SUFFICES ASSUME QuestionInv PROVE QuestionTypeOK
      OBVIOUS
    <2>1. \A w \in Workers : worker[w].pc # "idle" <=> worker[w].run \in Runs
      BY QuestionAssumption DEF QuestionInv, Typed, Sound, WorkerType
    <2> QED
      BY <2>1 DEF QuestionInv, Typed, Looks, RowType, LeaseType, LedgerType, QuestionTypeOK
  <1> QED
    BY <1>1, QuestionInvariant, PTL

\* The model and the tools are called for a run under one of its attempts only:
\* claim_question_run has an abandoned run closed and never executed again.
THEOREM OneAttemptExecutes == QuestionSpec => []ExecutedOnce
  <1>1. QuestionInv => ExecutedOnce
    <2> SUFFICES ASSUME QuestionInv, NEW r \in Runs PROVE Cardinality(ledger[r].callers) <= 1
      BY DEF ExecutedOnce
    <2>1. CASE ledger[r].callers = {}
      BY <2>1, FS_EmptySet
    <2>2. CASE ledger[r].callers # {}
      <3>1. PICK a \in ledger[r].callers : TRUE
        BY <2>2
      <3>2. ledger[r].callers = {a}
        <4>1. ledger[r].callers \subseteq Actors(r)
          BY DEF QuestionInv, Typed, LedgerType, Actors
        <4> QED
          BY <3>1, <4>1 DEF QuestionInv, Exec, ActorsAreLast
      <3>3. Cardinality({a}) = 1
        BY FS_Singleton
      <3> QED
        BY <3>2, <3>3
    <2> QED
      BY <2>1, <2>2
  <1> QED
    BY <1>1, QuestionInvariant, PTL

\* An answer rests on work really done: Apply puts a link into the chain only from
\* the worker that produced it, and all of an answer's links are of the one attempt
\* that executed the query.
THEOREM AnswerEarned == QuestionSpec => []AnswerIsEarned
  <1>1. QuestionInv => AnswerIsEarned
    <2> SUFFICES ASSUME QuestionInv, NEW r \in Runs, row[r].state = "ANSWERED"
                 PROVE  \E a \in ledger[r].queried : \A l \in Links : row[r].chain[l] = a
      BY DEF AnswerIsEarned
    <2> DEFINE a == row[r].chain["result"]
    <2>1. "result" \in Links
      BY DEF Links
    <2>2. a \in ledger[r].queried
      BY <2>1 DEF QuestionInv, Earned
    <2>3. \A l \in Links : row[r].chain[l] \in Actors(r)
      <3>1. \A l \in Links : row[r].chain[l] \in 0..LastAttempt /\ row[r].chain[l] # 0
        BY DEF QuestionInv, Typed, RowType, Earned
      <3>2. \A l \in Links : row[r].chain[l] \in 1..LastAttempt
        BY <3>1
      <3> QED
        BY <3>2 DEF Actors
    <2>4. \A l \in Links : row[r].chain[l] = a
      BY <2>1, <2>3 DEF QuestionInv, Exec, ActorsAreLast
    <2> QED
      BY <2>2, <2>4
  <1> QED
    BY <1>1, QuestionInvariant, PTL

\* An outcome reached by executing a run accounts for every call made for it: the
\* steps CheckpointLoop and FinalizeAnswer charge are those that were taken, though
\* they are counted in a worker's memory and written with a version it read before.
THEOREM OutcomePaid == QuestionSpec => []OutcomeIsPaid
  <1>1. QuestionInv => OutcomeIsPaid
    BY DEF QuestionInv, Books, Balance, OutcomeIsPaid
  <1> QED
    BY <1>1, QuestionInvariant, PTL

\* The budget bounds the calls themselves, for a run that is abandoned too: nobody
\* begins anew what an earlier attempt has already spent.
THEOREM CallsLimited == QuestionSpec => []CallsWithinLimit
  <1>1. QuestionInv => CallsWithinLimit
    BY DEF QuestionInv, Books, Balance, CallsWithinLimit
  <1> QED
    BY <1>1, QuestionInvariant, PTL

-----------------------------------------------------------------------------
(* The run keeps its promise.                                              *)

LEMMA OutcomeKinds ==
  \A s \in States :
    /\ OutcomeOf(s) \in {"open", "answered", "clarify", "refused", "lapsed"}
    /\ OutcomeOf(s) = "open" <=> s \notin Terminal
    /\ OutcomeOf(s) = "lapsed" <=> s = "CLARIFICATION_EXPIRED"
    /\ OutcomeOf(s) = "clarify" <=> s = "CLARIFICATION_REQUIRED"
  BY DEF OutcomeOf, Terminal, Clarification

\* A write of one run is a step of its promise.
LEMMA WritePromised ==
  ASSUME Typed, NEW w \in Workers, AcceptedWrite(w)
  PROVE  Promise!PromiseNext
  <1>0. PICK r \in Runs : r = worker[w].run
    BY DEF AcceptedWrite
  <1> DEFINE o == OutcomeOf(row'[r].state)
             n == row'[r].used
  <1>1. /\ row[r].state \in States \ Terminal
        /\ row'[r].state \in States \ {"CLARIFICATION_EXPIRED"}
        /\ n \in row[r].used..Limit
    BY <1>0 DEF AcceptedWrite, Typed, RowType
  <1>2. \A q \in Runs : q # r => row'[q] = row[q]
    BY <1>0 DEF AcceptedWrite, Typed, RowType
  <1>3. OutcomeOf(row[r].state) = "open"
    BY <1>1, OutcomeKinds
  <1>4. o \in Promise!Outcomes \union {"open"}
    BY <1>1, OutcomeKinds DEF Promise!Outcomes
  <1>5. [q \in Runs |-> OutcomeOf(row[q].state)]' =
          [[q \in Runs |-> OutcomeOf(row[q].state)] EXCEPT ![r] = o]
    BY <1>1, <1>2
  <1>6. [q \in Runs |-> row[q].used]' = [[q \in Runs |-> row[q].used] EXCEPT ![r] = n]
    BY <1>1, <1>2
  <1>7. Promise!Progress(r)
    <2>1. [q \in Runs |-> OutcomeOf(row[q].state)][r] = "open"
      BY <1>1, <1>3
    <2>2. n \in [q \in Runs |-> row[q].used][r]..Limit
      BY <1>1
    <2> HIDE DEF o, n
    <2> QED
      BY <1>4, <1>5, <1>6, <2>1, <2>2 DEF Promise!Progress
  <1> QED
    BY <1>1, <1>7 DEF Promise!PromiseNext

LEMMA LapsePromised ==
  ASSUME Typed, NEW r \in Runs, ClarificationExpires(r)
  PROVE  Promise!PromiseNext
  <1>1. /\ row[r].state = "CLARIFICATION_REQUIRED" /\ row'[r].state = "CLARIFICATION_EXPIRED"
        /\ row'[r].used = row[r].used
        /\ \A q \in Runs : q # r => row'[q] = row[q]
    BY ClarificationExpiresDoes DEF Typed, RowType
  <1>2. OutcomeOf(row[r].state) = "clarify" /\ OutcomeOf(row'[r].state) = "lapsed"
    BY <1>1, NamedStates, OutcomeKinds
  <1>3. [q \in Runs |-> OutcomeOf(row[q].state)]' =
          [[q \in Runs |-> OutcomeOf(row[q].state)] EXCEPT ![r] = "lapsed"]
    BY <1>1, <1>2
  <1>4. UNCHANGED [q \in Runs |-> row[q].used]
    BY <1>1
  <1>5. Promise!Lapse(r)
    BY <1>2, <1>3, <1>4 DEF Promise!Lapse
  <1> QED
    BY <1>5 DEF Promise!PromiseNext

LEMMA PromiseStep ==
  Typed /\ [QuestionNext]_questionVars => [Promise!PromiseNext]_(Promise!promiseVars)
  <1> SUFFICES ASSUME Typed, [QuestionNext]_questionVars
               PROVE  Promise!PromiseNext \/ UNCHANGED Promise!promiseVars
    OBVIOUS
  <1>1. UNCHANGED row => UNCHANGED Promise!promiseVars
    BY DEF Promise!promiseVars
  <1>2. ASSUME NEW w \in Workers, Work(w) \/ Crash(w) \/ Fault(w)
        PROVE  Promise!PromiseNext \/ UNCHANGED row
    BY <1>2, WorkRow, WritePromised
  <1>3. ASSUME NEW r \in Runs, ClarificationExpires(r) PROVE Promise!PromiseNext
    BY <1>3, LapsePromised
  <1>4. ASSUME NEW w \in Workers, NEW r \in Runs, Look(w, r) \/ Claim(w, r) \/ Miss(w, r)
        PROVE  UNCHANGED row
    BY <1>4 DEF Look, Claim, Miss
  <1>5. ASSUME NEW r \in Runs, Expire(r) \/ RolesChange(r) \/ SubmitClarification(r)
        PROVE  UNCHANGED row
    BY <1>5 DEF Expire, RolesChange, SubmitClarification
  <1>6. CASE UNCHANGED questionVars
    BY <1>1, <1>6 DEF questionVars
  <1> QED
    BY <1>1, <1>2, <1>3, <1>4, <1>5, <1>6 DEF QuestionNext

LEMMA PromiseInits == QuestionInit => Promise!PromiseInit
  <1> SUFFICES ASSUME QuestionInit PROVE Promise!PromiseInit
    OBVIOUS
  <1>1. \A r \in Runs : row[r].state = "RECEIVED" /\ row[r].used = 0
    BY DEF QuestionInit, Received
  <1>2. OutcomeOf("RECEIVED") = "open"
    BY DEF OutcomeOf
  <1> QED
    BY <1>1, <1>2 DEF Promise!PromiseInit

\* A question run implements QuestionPromise: it has one outcome, final except
\* that an open clarification may lapse, and a budget that only grows, stays
\* within its limit and is fixed with the outcome, whoever writes the run.
THEOREM PromiseKept == QuestionSpec => KeepsPromise
  <1>1. QuestionInv => Typed
    BY DEF QuestionInv
  <1> QED
    BY <1>1, PromiseInits, PromiseStep, QuestionInvariant, PTL
    DEF QuestionSpec, KeepsPromise, Promise!PromiseSpec

=============================================================================
