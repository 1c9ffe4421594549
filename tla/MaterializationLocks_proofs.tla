---------------------- MODULE MaterializationLocks_proofs ----------------------
(* The lock order of the control transactions, for any number of sessions, *)
(* datasets and runs.                                                      *)
EXTENDS MaterializationLocks, TLAPS

-----------------------------------------------------------------------------
(* Where a session is in its transaction: it holds the locks up to some    *)
(* point and its remaining statements ask for the rest.                    *)

Partway(taken, rest, locks) ==
  \E n \in 0..Len(locks) : taken = {locks[i] : i \in 1..n} /\ rest = SubSeq(locks, n + 1, Len(locks))
Walks(s, locks) == Partway(held[s], tx[s].locks, locks)

\* One disjunct for each transaction of MaterializationLocks but Claim.
Doing(s, d, r) ==
  \/ tx[s].kind = "begin" /\ tx[s].run = {r} /\ Walks(s, BeginLocks(d, r))
  \/ tx[s].kind = "refresh" /\ tx[s].run = {r} /\ Walks(s, RefreshLocks(d, r))
  \/ tx[s].kind = "activate" /\ tx[s].run = {r} /\ Walks(s, ActivateLocks(d, r))
  \/ tx[s].kind = "fail" /\ tx[s].run = {r} /\ Walks(s, FailLocks(r))
  \/ tx[s].kind = "cancel" /\ Walks(s, CancelLocks(r))
  \/ tx[s].kind = "cleanup" /\ Walks(s, CleanupLocks(d))
Position(s) ==
  \/ tx[s] = NoTx /\ held[s] = {}
  \/ tx[s].kind = "claim"
  \/ \E d \in Datasets, r \in Runs : Doing(s, d, r)

Locks ==
  {Gate} \union {Publication(d) : d \in Datasets} \union {ActiveRow(d) : d \in Datasets}
         \union {RunRow(r) : r \in Runs}
Kinds == {"none", "begin", "refresh", "activate", "fail", "cancel", "cleanup", "claim"}
LockTyped ==
  /\ tx \in [Sessions -> [kind : Kinds, run : SUBSET Runs, locks : Seq(Locks)]]
  /\ held \in [Sessions -> SUBSET Locks]

LockInv == LockTyped /\ \A s \in Sessions : Position(s)

-----------------------------------------------------------------------------
(* The invariant.                                                          *)

\* The lists are lists of locks.
LEMMA ListsTyped ==
  ASSUME NEW d \in Datasets, NEW r \in Runs
  PROVE  /\ RefreshLocks(d, r) \in Seq(Locks)
         /\ ActivateLocks(d, r) \in Seq(Locks)
         /\ BeginLocks(d, r) \in Seq(Locks)
         /\ FailLocks(r) \in Seq(Locks)
         /\ CancelLocks(r) \in Seq(Locks)
         /\ CleanupLocks(d) \in Seq(Locks)
  <1>1. Gate \in Locks /\ Publication(d) \in Locks /\ ActiveRow(d) \in Locks /\ RunRow(r) \in Locks
    BY DEF Locks
  <1>2. RefreshLocks(d, r) \in Seq(Locks) /\ <<Gate>> \in Seq(Locks)
    BY <1>1 DEF RefreshLocks
  <1>3. BeginLocks(d, r) \in Seq(Locks)
    BY <1>1 DEF BeginLocks
  <1> QED
    BY <1>1, <1>2, <1>3 DEF ActivateLocks, FailLocks, CancelLocks, CleanupLocks

LEMMA ClaimsTyped ==
  ASSUME NEW t \in Claims
  PROVE  t \in [kind : {"claim"}, run : SUBSET Runs, locks : Seq(Locks)]
  <1>1. PICK q \in Sweeps : t = [kind |-> "claim", run |-> {}, locks |-> ClaimLocks(q)]
    BY DEF Claims
  <1>2. PICK n \in 1..MaxSwept : q \in [1..n -> Runs]
    BY <1>1 DEF Sweeps, Injection, IsInjective
  <1>3. n \in Nat
    BY LockAssumption
  <1>4. ClaimLocks(q) \in [1..n -> Locks]
    BY <1>2 DEF ClaimLocks, Locks
  <1>5. ClaimLocks(q) \in Seq(Locks)
    BY <1>3, <1>4
  <1> QED
    BY <1>1, <1>5

\* A transaction that begins holds nothing and has its whole list before it.
LEMMA StartsPartway ==
  ASSUME NEW locks \in Seq(Locks)
  PROVE  Partway({}, locks, locks)
  <1>1. SubSeq(locks, 0 + 1, Len(locks)) = locks
    OBVIOUS
  <1>2. {locks[i] : i \in 1..0} = {} /\ 0 \in 0..Len(locks)
    OBVIOUS
  <1> QED
    BY <1>1, <1>2 DEF Partway

\* The first element of what is left of a list, and what is left after it.
LEMMA RestOfList ==
  ASSUME NEW locks \in Seq(Locks), NEW n \in 0..Len(locks), SubSeq(locks, n + 1, Len(locks)) # <<>>
  PROVE  /\ n < Len(locks)
         /\ Head(SubSeq(locks, n + 1, Len(locks))) = locks[n + 1]
         /\ Tail(SubSeq(locks, n + 1, Len(locks))) = SubSeq(locks, n + 2, Len(locks))
  OBVIOUS

\* Acquire takes the next lock of the list and moves past it.
LEMMA MovesPartway ==
  ASSUME NEW locks \in Seq(Locks), NEW taken, NEW rest, rest # <<>>, Partway(taken, rest, locks)
  PROVE  Partway(taken \union {Head(rest)}, Tail(rest), locks)
  <1>1. PICK n \in 0..Len(locks) : /\ taken = {locks[i] : i \in 1..n}
                                   /\ rest = SubSeq(locks, n + 1, Len(locks))
    BY DEF Partway
  <1>2. /\ n < Len(locks)
        /\ Head(rest) = locks[n + 1]
        /\ Tail(rest) = SubSeq(locks, n + 2, Len(locks))
    BY <1>1, RestOfList
  <1>3. PICK k \in 0..Len(locks) : k = n + 1
    BY <1>2
  <1>4. n \in Nat /\ k + 1 = n + 2 /\ 1..k = (1..n) \union {k}
    BY <1>3
  <1>5. Head(rest) = locks[k] /\ Tail(rest) = SubSeq(locks, k + 1, Len(locks))
    BY <1>2, <1>3, <1>4
  <1>6. taken \union {Head(rest)} = {locks[i] : i \in 1..k}
    BY <1>1, <1>4, <1>5
  <1> QED
    BY <1>5, <1>6 DEF Partway

\* One step of one session keeps every session within its transaction.
LEMMA LockStep == LockInv /\ [LockNext]_lockVars => LockInv'
  <1> SUFFICES ASSUME LockInv, [LockNext]_lockVars PROVE LockInv'
    OBVIOUS
  <1>1. CASE UNCHANGED lockVars
    BY <1>1 DEF lockVars, LockInv, LockTyped, Position, Doing, Walks
  <1>2. ASSUME NEW s \in Sessions, NEW d \in Datasets, NEW r \in Runs,
               NEW t \in WorkerTransactions(d, r) \union OtherTransactions(d, r) \union Claims,
               Begin(s, t)
        PROVE  LockInv'
    <2>1. t \in [kind : Kinds, run : SUBSET Runs, locks : Seq(Locks)]
      BY ListsTyped, ClaimsTyped DEF WorkerTransactions, OtherTransactions, Kinds
    <2>2. LockTyped'
      BY <1>2, <2>1 DEF Begin, LockInv, LockTyped
    <2>3. tx'[s] = t /\ held'[s] = {} /\ \A o \in Sessions \ {s} : tx'[o] = tx[o] /\ held'[o] = held[o]
      <3>1. tx[s].kind = "none"
        BY <1>2 DEF Begin, NoTx
      <3>2. held[s] = {}
        BY <3>1 DEF LockInv, Position, Doing
      <3> QED
        BY <1>2, <3>2 DEF Begin, LockInv, LockTyped
    <2>4. Partway({}, t.locks, t.locks)
      BY <2>1, StartsPartway
    <2>5. Position(s)'
      <3>1. CASE t \in Claims
        BY <2>3, <3>1, ClaimsTyped DEF Position
      <3>2. CASE t \in WorkerTransactions(d, r) \union OtherTransactions(d, r)
        <4>1. Doing(s, d, r)'
          BY <2>3, <2>4, <3>2 DEF WorkerTransactions, OtherTransactions, Doing, Walks
        <4> QED
          BY <4>1 DEF Position
      <3> QED
        BY <3>1, <3>2
    <2>6. \A o \in Sessions \ {s} : Position(o)'
      BY <2>3 DEF LockInv, Position, Doing, Walks
    <2> QED
      BY <2>2, <2>5, <2>6 DEF LockInv
  <1>3. ASSUME NEW s \in Sessions, Acquire(s)
        PROVE  LockInv'
    <2>1. tx[s].locks # <<>> /\ Wants(s) = {Head(tx[s].locks)}
      BY <1>3 DEF Acquire, Wants
    <2>2. Head(tx[s].locks) \in Locks /\ Tail(tx[s].locks) \in Seq(Locks)
      BY <2>1 DEF LockInv, LockTyped
    <2>3. LockTyped'
      BY <1>3, <2>1, <2>2 DEF Acquire, LockInv, LockTyped
    <2>4. /\ tx'[s].kind = tx[s].kind /\ tx'[s].run = tx[s].run
          /\ \A o \in Sessions \ {s} : tx'[o] = tx[o] /\ held'[o] = held[o]
      BY <1>3 DEF Acquire, LockInv, LockTyped
    <2>6. tx[s] # NoTx
      BY <2>1 DEF NoTx
    <2>8. held'[s] = held[s] \union {Head(tx[s].locks)} /\ tx'[s].locks = Tail(tx[s].locks)
      BY <1>3, <2>1 DEF Acquire, LockInv, LockTyped
    <2>10. \A locks \in Seq(Locks) : Walks(s, locks) => Walks(s, locks)'
      BY <2>1, <2>8, MovesPartway DEF Walks
    <2>11. Position(s)'
      <3>1. CASE tx[s].kind = "claim"
        BY <2>4, <3>1 DEF Position
      <3>2. CASE tx[s].kind # "claim"
        <4>1. PICK d \in Datasets, r \in Runs : Doing(s, d, r)
          BY <2>6, <3>2 DEF LockInv, Position
        <4>2. Doing(s, d, r)'
          BY <2>4, <2>10, <4>1, ListsTyped DEF Doing
        <4> QED
          BY <4>2 DEF Position
      <3> QED
        BY <3>1, <3>2
    <2>9. \A o \in Sessions \ {s} : Position(o)'
      BY <2>4 DEF LockInv, Position, Doing, Walks
    <2> QED
      BY <2>3, <2>9, <2>11 DEF LockInv
  <1>4. ASSUME NEW s \in Sessions, Release(s)
        PROVE  LockInv'
    <2>1. NoTx \in [kind : Kinds, run : SUBSET Runs, locks : Seq(Locks)]
      BY DEF NoTx, Kinds
    <2>2. LockTyped'
      BY <1>4, <2>1 DEF Release, LockInv, LockTyped
    <2>3. tx'[s] = NoTx /\ held'[s] = {} /\ \A o \in Sessions \ {s} : tx'[o] = tx[o] /\ held'[o] = held[o]
      BY <1>4 DEF Release, LockInv, LockTyped
    <2>5. \A o \in Sessions : Position(o)'
      BY <2>3 DEF LockInv, Position, Doing, Walks
    <2> QED
      BY <2>2, <2>5 DEF LockInv
  <1> QED
    BY <1>1, <1>2, <1>3, <1>4 DEF LockNext, Commit, Abort

LEMMA LockInductive == LockSpec => []LockInv
  <1>1. LockInit => LockInv
    BY DEF LockInit, LockInv, LockTyped, Position, NoTx, Kinds
  <1> QED
    BY <1>1, LockStep, PTL DEF LockSpec

-----------------------------------------------------------------------------
(* Circles.                                                                *)

\* Locks of different kinds are different, and so are those of different rows.
LEMMA LocksDiffer ==
  ASSUME NEW d, NEW e, NEW r, NEW q
  PROVE  /\ Gate # Publication(d) /\ Gate # ActiveRow(d) /\ Gate # RunRow(r)
         /\ Publication(d) # ActiveRow(e) /\ Publication(d) # RunRow(r)
         /\ ActiveRow(d) # RunRow(r)
         /\ RunRow(r) = RunRow(q) => r = q
  <1>1. /\ Gate.lock = "gate" /\ Publication(d).lock = "publication"
        /\ ActiveRow(d).lock = "active row" /\ ActiveRow(e).lock = "active row"
        /\ RunRow(r).lock = "run"
    BY DEF Gate, Publication, ActiveRow, RunRow
  <1>2. RunRow(r).run = r /\ RunRow(q).run = q
    BY DEF RunRow
  <1> QED
    BY <1>1, <1>2

\* A session that waits has taken the locks before the one it waits for.
LEMMA WaitsForNext ==
  ASSUME NEW locks \in Seq(Locks), NEW taken, NEW rest, rest # <<>>, Partway(taken, rest, locks)
  PROVE  \E n \in Nat : /\ n < Len(locks) /\ Head(rest) = locks[n + 1]
                        /\ \A x \in taken : \E i \in Nat : 1 <= i /\ i <= n /\ x = locks[i]
  <1>1. PICK n \in 0..Len(locks) : /\ taken = {locks[i] : i \in 1..n}
                                   /\ rest = SubSeq(locks, n + 1, Len(locks))
    BY DEF Partway
  <1>2. n < Len(locks) /\ Head(rest) = locks[n + 1]
    BY <1>1, RestOfList
  <1>3. n \in Nat /\ \A i \in 1..n : i \in Nat /\ 1 <= i /\ i <= n
    OBVIOUS
  <1> QED
    BY <1>1, <1>2, <1>3

\* What a waiting session waits for and the locks it may hold meanwhile.
LEMMA WaitingCases ==
  ASSUME NEW d \in Datasets, NEW r \in Runs, NEW taken, NEW rest, rest # <<>>
  PROVE  /\ Partway(taken, rest, BeginLocks(d, r)) =>
              \/ taken = {} \/ Head(rest) = Gate
              \/ Head(rest) = RunRow(r) /\ taken \subseteq {Publication(d)}
              \/ Head(rest) = ActiveRow(d) /\ taken \subseteq {Publication(d), RunRow(r)}
         /\ Partway(taken, rest, RefreshLocks(d, r)) =>
              \/ taken = {}
              \/ Head(rest) = RunRow(r) /\ taken \subseteq {Publication(d)}
              \/ Head(rest) = ActiveRow(d) /\ taken \subseteq {Publication(d), RunRow(r)}
         /\ Partway(taken, rest, ActivateLocks(d, r)) =>
              \/ taken = {}
              \/ Head(rest) = RunRow(r) /\ taken \subseteq {Gate}
              \/ Head(rest) = Publication(d) /\ taken \subseteq {Gate, RunRow(r)}
              \/ Head(rest) = ActiveRow(d) /\ taken \subseteq {Gate, RunRow(r), Publication(d)}
         /\ Partway(taken, rest, FailLocks(r)) =>
              \/ taken = {}
              \/ Head(rest) = Gate /\ taken \subseteq {RunRow(r)}
         /\ Partway(taken, rest, CancelLocks(r)) => taken = {}
         /\ Partway(taken, rest, CleanupLocks(d)) =>
              \/ taken = {}
              \/ Head(rest) = ActiveRow(d) /\ taken \subseteq {Gate}
  <1>1. ASSUME Partway(taken, rest, RefreshLocks(d, r))
        PROVE  \/ taken = {}
               \/ Head(rest) = RunRow(r) /\ taken \subseteq {Publication(d)}
               \/ Head(rest) = ActiveRow(d) /\ taken \subseteq {Publication(d), RunRow(r)}
    <2> DEFINE locks == RefreshLocks(d, r)
    <2>1. /\ Len(locks) = 3 /\ locks[1] = Publication(d)
          /\ locks[2] = RunRow(r) /\ locks[3] = ActiveRow(d)
      BY DEF RefreshLocks
    <2> HIDE DEF locks
    <2>2. PICK n \in Nat : /\ n < Len(locks) /\ Head(rest) = locks[n + 1]
                           /\ \A x \in taken : \E i \in Nat : 1 <= i /\ i <= n /\ x = locks[i]
      BY <1>1, WaitsForNext, ListsTyped DEF locks
    <2>3. n = 0 \/ n = 1 \/ n = 2
      BY <2>1, <2>2
    <2> QED
      BY <2>1, <2>2, <2>3
  <1>2. ASSUME Partway(taken, rest, ActivateLocks(d, r))
        PROVE  \/ taken = {}
               \/ Head(rest) = RunRow(r) /\ taken \subseteq {Gate}
               \/ Head(rest) = Publication(d) /\ taken \subseteq {Gate, RunRow(r)}
               \/ Head(rest) = ActiveRow(d) /\ taken \subseteq {Gate, RunRow(r), Publication(d)}
    <2> DEFINE locks == ActivateLocks(d, r)
    <2>1. /\ Len(locks) = 4 /\ locks[1] = Gate /\ locks[2] = RunRow(r)
          /\ locks[3] = Publication(d) /\ locks[4] = ActiveRow(d)
      BY DEF ActivateLocks
    <2> HIDE DEF locks
    <2>2. PICK n \in Nat : /\ n < Len(locks) /\ Head(rest) = locks[n + 1]
                           /\ \A x \in taken : \E i \in Nat : 1 <= i /\ i <= n /\ x = locks[i]
      BY <1>2, WaitsForNext, ListsTyped DEF locks
    <2>3. n = 0 \/ n = 1 \/ n = 2 \/ n = 3
      BY <2>1, <2>2
    <2> QED
      BY <2>1, <2>2, <2>3
  <1>3. ASSUME Partway(taken, rest, FailLocks(r))
        PROVE  taken = {} \/ (Head(rest) = Gate /\ taken \subseteq {RunRow(r)})
    <2> DEFINE locks == FailLocks(r)
    <2>1. Len(locks) = 2 /\ locks[1] = RunRow(r) /\ locks[2] = Gate
      BY DEF FailLocks
    <2> HIDE DEF locks
    <2>2. PICK n \in Nat : /\ n < Len(locks) /\ Head(rest) = locks[n + 1]
                           /\ \A x \in taken : \E i \in Nat : 1 <= i /\ i <= n /\ x = locks[i]
      BY <1>3, WaitsForNext, ListsTyped DEF locks
    <2>3. n = 0 \/ n = 1
      BY <2>1, <2>2
    <2> QED
      BY <2>1, <2>2, <2>3
  <1>4. ASSUME Partway(taken, rest, CancelLocks(r))
        PROVE  taken = {}
    <2>1. Len(CancelLocks(r)) = 1
      BY DEF CancelLocks
    <2>2. PICK n \in Nat : /\ n < Len(CancelLocks(r))
                           /\ \A x \in taken : \E i \in Nat : 1 <= i /\ i <= n
      BY <1>4, WaitsForNext, ListsTyped
    <2> QED
      BY <2>1, <2>2
  <1>5. ASSUME Partway(taken, rest, CleanupLocks(d))
        PROVE  taken = {} \/ (Head(rest) = ActiveRow(d) /\ taken \subseteq {Gate})
    <2> DEFINE locks == CleanupLocks(d)
    <2>1. Len(locks) = 2 /\ locks[1] = Gate /\ locks[2] = ActiveRow(d)
      BY DEF CleanupLocks
    <2> HIDE DEF locks
    <2>2. PICK n \in Nat : /\ n < Len(locks) /\ Head(rest) = locks[n + 1]
                           /\ \A x \in taken : \E i \in Nat : 1 <= i /\ i <= n /\ x = locks[i]
      BY <1>5, WaitsForNext, ListsTyped DEF locks
    <2>3. n = 0 \/ n = 1
      BY <2>1, <2>2
    <2> QED
      BY <2>1, <2>2, <2>3
  <1>6. ASSUME Partway(taken, rest, BeginLocks(d, r))
        PROVE  \/ taken = {} \/ Head(rest) = Gate
               \/ Head(rest) = RunRow(r) /\ taken \subseteq {Publication(d)}
               \/ Head(rest) = ActiveRow(d) /\ taken \subseteq {Publication(d), RunRow(r)}
    <2> DEFINE locks == BeginLocks(d, r)
    <2>1. /\ Len(locks) = 4 /\ locks[1] = Publication(d) /\ locks[2] = RunRow(r)
          /\ locks[3] = ActiveRow(d) /\ locks[4] = Gate
      BY DEF BeginLocks
    <2> HIDE DEF locks
    <2>2. PICK n \in Nat : /\ n < Len(locks) /\ Head(rest) = locks[n + 1]
                           /\ \A x \in taken : \E i \in Nat : 1 <= i /\ i <= n /\ x = locks[i]
      BY <1>6, WaitsForNext, ListsTyped DEF locks
    <2>3. n = 0 \/ n = 1 \/ n = 2 \/ n = 3
      BY <2>1, <2>2
    <2> QED
      BY <2>1, <2>2, <2>3
  <1> QED
    BY <1>1, <1>2, <1>3, <1>4, <1>5, <1>6

\* A session that waits in the order of the others holds the locks before the
\* one it waits for.
Waiting(s) ==
  /\ tx[s].locks # <<>> /\ Wants(s) = {Head(tx[s].locks)}
  /\ ~OutOfOrder(s)

\* What a waiting session holds and wants.
LEMMA WaitingHolds ==
  ASSUME LockInv, NEW s \in Sessions, Waiting(s), held[s] # {}
  PROVE  \E d \in Datasets, r \in Runs :
           \/ /\ tx[s].kind \in {"begin", "refresh"} /\ tx[s].run = {r}
              /\ Wants(s) = {RunRow(r)} /\ held[s] \subseteq {Publication(d)}
           \/ /\ tx[s].kind = "activate" /\ tx[s].run = {r}
              /\ Wants(s) = {RunRow(r)} /\ held[s] \subseteq {Gate}
           \/ /\ tx[s].kind = "activate" /\ tx[s].run = {r}
              /\ Wants(s) = {Publication(d)} /\ held[s] \subseteq {Gate, RunRow(r)}
           \/ /\ tx[s].kind = "fail" /\ tx[s].run = {r}
              /\ Wants(s) = {Gate} /\ held[s] \subseteq {RunRow(r)}
           \/ /\ tx[s].run = {r} \/ tx[s].kind = "cleanup"
              /\ Wants(s) = {ActiveRow(d)}
              /\ held[s] \subseteq {Gate, RunRow(r), Publication(d)}
  <1>2. /\ tx[s].locks # <<>> /\ Wants(s) = {Head(tx[s].locks)}
        /\ tx[s].kind # "claim" /\ (tx[s].kind = "begin" => Head(tx[s].locks) # Gate)
    BY DEF Waiting, OutOfOrder
  <1>1. PICK d \in Datasets, r \in Runs : Doing(s, d, r)
    BY <1>2 DEF LockInv, Position, NoTx
  <1>3. CASE tx[s].kind = "refresh"
    BY <1>1, <1>2, <1>3, WaitingCases DEF Doing, Walks
  <1>4. CASE tx[s].kind = "activate"
    BY <1>1, <1>2, <1>4, WaitingCases DEF Doing, Walks
  <1>5. CASE tx[s].kind = "fail"
    BY <1>1, <1>2, <1>5, WaitingCases DEF Doing, Walks
  <1>6. CASE tx[s].kind \in {"cancel", "cleanup"}
    BY <1>1, <1>2, <1>6, WaitingCases DEF Doing, Walks
  <1>7. CASE tx[s].kind = "begin"
    BY <1>1, <1>2, <1>7, WaitingCases DEF Doing, Walks
  <1> QED
    BY <1>1, <1>2, <1>3, <1>4, <1>5, <1>6, <1>7 DEF Doing

\* Activate takes the gate before its rows and a refresh never takes it, so the
\* waits among sessions in order run out: whoever holds an ACTIVE row waits for
\* nothing, then whoever holds a publication lock, then a run row, then the gate.
LEMMA NoCircle ==
  ASSUME LockInv, NEW S \in SUBSET Sessions, \A s \in S : ~OutOfOrder(s), Circle(S),
         \A s, o \in S : s # o => tx[s].run \intersect tx[o].run = {}
  PROVE  FALSE
  <1>1. \A s \in S : Waiting(s) /\ \E o \in S : o # s /\ held[o] \intersect Wants(s) # {}
    BY DEF Circle, Blocks, Wants, Waiting
  <1>2. ASSUME NEW s \in S, NEW d, Wants(s) = {ActiveRow(d)}
        PROVE  FALSE
    <2>1. PICK o \in S : ActiveRow(d) \in held[o]
      BY <1>1, <1>2
    <2>2. \A e, q : ActiveRow(d) \notin {Gate, RunRow(q), Publication(e)}
      BY LocksDiffer
    <2> QED
      BY <1>1, <2>1, <2>2, WaitingHolds
  <1>3. ASSUME NEW s \in S, NEW r, tx[s].run = {r}, Wants(s) = {RunRow(r)}
        PROVE  FALSE
    <2>1. PICK o \in S : o # s /\ RunRow(r) \in held[o]
      BY <1>1, <1>3
    <2>2. PICK q \in Runs : tx[o].run = {q} /\ RunRow(r) = RunRow(q)
      <3>1. \A e : RunRow(r) # Gate /\ RunRow(r) # Publication(e)
        BY LocksDiffer
      <3>2. \A e : Wants(o) # {ActiveRow(e)}
        BY <1>2
      <3> QED
        BY <1>1, <2>1, <3>1, <3>2, WaitingHolds
    <2>3. q = r
      BY <2>2, LocksDiffer
    <2> QED
      BY <1>3, <2>1, <2>2, <2>3
  <1>4. ASSUME NEW s \in S, NEW d, Publication(d) \in held[s]
        PROVE  FALSE
    BY <1>1, <1>2, <1>3, <1>4, WaitingHolds, LocksDiffer
  <1>5. ASSUME NEW s \in S, Gate \in held[s]
        PROVE  FALSE
    <2>1. PICK d \in Datasets : Wants(s) = {Publication(d)}
      BY <1>1, <1>2, <1>3, <1>5, WaitingHolds, LocksDiffer
    <2> QED
      BY <1>1, <1>4, <2>1
  <1>6. PICK s \in S : held[s] # {}
    <2>1. PICK s \in S : TRUE
      BY DEF Circle
    <2>2. PICK o \in S : held[o] \intersect Wants(s) # {}
      BY <1>1, <2>1
    <2> QED
      BY <2>2
  <1>7. Wants(s) = {Gate} \/ \E d \in Datasets : Wants(s) = {Publication(d)}
    BY <1>1, <1>2, <1>3, <1>6, WaitingHolds
  <1> QED
    BY <1>1, <1>4, <1>5, <1>7

\* Whatever the number of sessions, datasets and runs, transactions wait for one
\* another in a circle only if one of them is a BeginSnapshot that asks for the
\* tenant gate after the ACTIVE row, or a Claim between two exhausted runs, or
\* if two of them are at one run, of which one has lost its lease.
THEOREM OnlyDisorderCloses == LockSpec => []CircleNeedsDisorder
  <1>1. LockInv => CircleNeedsDisorder
    BY NoCircle DEF CircleNeedsDisorder
  <1> QED
    BY <1>1, LockInductive, PTL
=============================================================================
