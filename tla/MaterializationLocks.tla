------------------------- MODULE MaterializationLocks -------------------------
(***************************************************************************)
(* The locks taken inside the control transactions of MaterializationBuild *)
(* and MaterializationCleanup, which those modules treat as atomic, for    *)
(* several datasets of one tenant.                                         *)
(*                                                                         *)
(* A transaction is the sequence of locks its statements acquire, held     *)
(* until it commits.  The tenant gate is an advisory lock that a BEFORE    *)
(* STATEMENT trigger takes for every write of dataset_materializations     *)
(* (migration 000071); Activate also takes it first, by hand.              *)
(*                                                                         *)
(* Abstractions.  Every lock is exclusive: the only shared one, on the     *)
(* ACTIVE row in BeginSnapshot, is always taken under the publication lock *)
(* and meets only exclusive requests.  Rows a transaction alone can reach  *)
(* (its snapshot) or takes last (nodes, the run Claim picks with SKIP      *)
(* LOCKED) are left out; so are the FOR SHARE locks of the version and the *)
(* dataset, which conflict with no transaction here.  A lease orders       *)
(* nothing: BeginSnapshot and Activate check it when they already hold     *)
(* locks, so a superseded worker's transaction may be under way beside its *)
(* successor's.                                                            *)
(***************************************************************************)
EXTENDS Naturals, Sequences, Functions

CONSTANTS
    Sessions,  \* database sessions of workers, cleaners and API handlers
    Datasets,  \* datasets of the tenant
    Runs,      \* build runs
    MaxSwept   \* the most runs that one Claim finds exhausted

ASSUME LockAssumption == MaxSwept \in Nat

VARIABLES
    tx,   \* the transaction each session is in
    held  \* the locks it has acquired

lockVars == <<tx, held>>

Gate == [lock |-> "gate"]
Publication(d) == [lock |-> "publication", dataset |-> d]
ActiveRow(d) == [lock |-> "active row", dataset |-> d]
RunRow(r) == [lock |-> "run", run |-> r]

ActivateGateOnWrite(d, r) == <<RunRow(r), Publication(d), ActiveRow(d), Gate>>
\* Activate: gate, lease, publication, the ACTIVE row.
ActivateLocks(d, r) == <<Gate, RunRow(r), Publication(d), ActiveRow(d)>>

\* BeginSnapshot that finds a row to refresh, and one that inserts a BUILDING
\* row, whose statement trigger asks for the gate last.
RefreshLocks(d, r) == <<Publication(d), RunRow(r), ActiveRow(d)>>
BeginLocks(d, r) == <<Publication(d), RunRow(r), ActiveRow(d), Gate>>

\* Fail: the lease, then the statement that fails the BUILDING row.
FailLocks(r) == <<RunRow(r), Gate>>
CancelLocks(r) == <<RunRow(r)>>
\* completeCleanup updates the ACTIVE row.
CleanupLocks(d) == <<Gate, ActiveRow(d)>>

\* Claim closes the runs whose last lease has expired with one statement, row by
\* row in the order it meets them.
Sweeps == UNION {Injection(1..n, Runs) : n \in 1..MaxSwept}
ClaimLocks(q) == [i \in DOMAIN q |-> RunRow(q[i])]

\* The transactions of a worker on run r.
WorkerTransactions(d, r) ==
    {[kind |-> "begin", run |-> {r}, locks |-> BeginLocks(d, r)],
     [kind |-> "refresh", run |-> {r}, locks |-> RefreshLocks(d, r)],
     [kind |-> "activate", run |-> {r}, locks |-> ActivateLocks(d, r)],
     [kind |-> "fail", run |-> {r}, locks |-> FailLocks(r)]}
OtherTransactions(d, r) ==
    {[kind |-> "cancel", run |-> {}, locks |-> CancelLocks(r)],
     [kind |-> "cleanup", run |-> {}, locks |-> CleanupLocks(d)]}
Claims == {[kind |-> "claim", run |-> {}, locks |-> ClaimLocks(q)] : q \in Sweeps}

NoTx == [kind |-> "none", run |-> {}, locks |-> <<>>]

-----------------------------------------------------------------------------
LockInit ==
    /\ tx = [s \in Sessions |-> NoTx]
    /\ held = [s \in Sessions |-> {}]

Begin(s, t) ==
    /\ tx[s] = NoTx
    /\ tx' = [tx EXCEPT ![s] = t]
    /\ UNCHANGED held

\* The next lock the session's current statement needs.
Wants(s) == IF tx[s].locks = <<>> THEN {} ELSE {Head(tx[s].locks)}
Blocks(o, s) == o # s /\ held[o] \intersect Wants(s) # {}

Acquire(s) ==
    /\ Wants(s) # {}
    /\ \A o \in Sessions : ~Blocks(o, s)
    /\ held' = [held EXCEPT ![s] = @ \union Wants(s)]
    /\ tx' = [tx EXCEPT ![s].locks = Tail(@)]

Release(s) ==
    /\ tx' = [tx EXCEPT ![s] = NoTx]
    /\ held' = [held EXCEPT ![s] = {}]

Commit(s) == tx[s] # NoTx /\ Wants(s) = {} /\ Release(s)
\* An early error, a cancelled statement, or PostgreSQL's deadlock detector.
Abort(s) == tx[s] # NoTx /\ Wants(s) # {} /\ Release(s)

\* Sessions that wait for one another in a circle.
Circle(S) == S # {} /\ \A s \in S : \E o \in S : Blocks(o, s)

LockNext ==
    \E s \in Sessions :
        \/ \E d \in Datasets, r \in Runs :
             \E t \in WorkerTransactions(d, r) \union OtherTransactions(d, r) \union Claims :
               Begin(s, t)
        \/ Acquire(s) \/ Commit(s) \/ Abort(s)

LockSpec == LockInit /\ [][LockNext]_lockVars

-----------------------------------------------------------------------------
\* A session that asks for a lock against the order of the others: for the gate
\* when it holds the ACTIVE row, or for a run while it holds another.
OutOfOrder(s) ==
    \/ tx[s].kind = "begin" /\ Wants(s) = {Gate}
    \/ tx[s].kind = "claim" /\ held[s] # {}

\* Transactions wait for each other in a circle only where a BeginSnapshot that
\* inserts its BUILDING row asks for the gate, a Claim has closed one run and
\* waits for the next, or a superseded worker and its successor are both at one
\* run.  By themselves Activate, Fail, a refresh, a cancellation and a cleanup
\* never do, since Activate takes the gate before its rows.
CircleNeedsDisorder ==
    \A S \in SUBSET Sessions :
        Circle(S) => \/ \E s \in S : OutOfOrder(s)
                     \/ \E s, o \in S : s # o /\ tx[s].run \intersect tx[o].run # {}
=============================================================================
