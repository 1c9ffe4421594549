----------------------- MODULE IdempotentCommands_proofs -----------------------
(***************************************************************************)
(* Proofs about IdempotentCommands, for any number of requests and bodies. *)
(***************************************************************************)
EXTENDS IdempotentCommands, TLAPS

\* A request that has been answered or is being served has arrived, and one that
\* has not arrived has inserted no record.
Arrived ==
    \A q \in Requests :
        request[q].pc = "new" => reply[q].kind = "none" /\ life[q] = "none"

\* The record was inserted by an arrived request, it is within its TTL exactly
\* while that request's life is held, and the response it holds is that of a
\* request with its body.
RecordIsKnown ==
    record.state # "ABSENT" =>
        /\ request[record.id].pc # "new"
        /\ life[record.id] = "held" <=> ~record.expired
        /\ life[record.id] # "none"
        /\ record.state = "COMPLETED" =>
             /\ request[record.response].pc # "new"
             /\ request[record.response].body = record.body

\* A governed answer names a record that was inserted and the response of an
\* execution with the same body; while that record exists it holds the answer.
AnswerIsRecorded ==
    \A q \in Requests :
        Governed(q) =>
            /\ reply[q].record \in Requests /\ life[reply[q].record] # "none"
            /\ reply[q].response \in Requests /\ request[reply[q].response].pc # "new"
            /\ request[reply[q].response].body = request[q].body
            /\ record.id = reply[q].record =>
                 record.state = "COMPLETED" /\ record.response = reply[q].response
            /\ life[reply[q].record] = "held" => record.id = reply[q].record

\* What Expire records: only a request that is no longer served merely lapses.
LapsedIsDone == \A q \in Requests : life[q] = "lapsed" => request[q].pc = "done"

IIdem ==
    /\ IdempotencyTypeOK /\ Arrived /\ RecordIsKnown /\ AnswerIsRecorded
    /\ LapsedIsDone /\ OneExecution /\ AnswersAgree

-----------------------------------------------------------------------------
\* No record, no answer and no request being served: the invariant holds.
LEMMA IdemInit == IdempotencyInit => IIdem
  <1> SUFFICES ASSUME IdempotencyInit PROVE IIdem
    OBVIOUS
  <1> USE IdempotencyAssumption DEF IdempotencyInit, Absent, NoReply, Refusal
  <1>1. IdempotencyTypeOK
    BY DEF IdempotencyTypeOK, RecordShape, Serving, Kinds
  <1>2. Arrived /\ RecordIsKnown /\ LapsedIsDone
    BY DEF Arrived, RecordIsKnown, LapsedIsDone
  <1>3. AnswerIsRecorded /\ AnswersAgree
    BY DEF AnswerIsRecorded, AnswersAgree, Governed
  <1>4. OneExecution
    BY DEF OneExecution, Serving
  <1> QED
    BY <1>1, <1>2, <1>3, <1>4 DEF IIdem

\* A request arrives and inserts the record (Begin): whatever was there is
\* absent or has expired, so no answer of a held record is lost.
LEMMA AcquireStep ==
  ASSUME IIdem, NEW q \in Requests, NEW b \in Bodies, request[q].pc = "new", Acquire(q, b),
         NEW pc \in {"execute", "done"}, request' = [request EXCEPT ![q] = [pc |-> pc, body |-> b]],
         UNCHANGED reply \/ reply' = [reply EXCEPT ![q] = Refusal("error")]
  PROVE  IIdem'
  <1> USE IdempotencyAssumption DEF IIdem, Acquire, Absent
  <1>1. IdempotencyTypeOK'
    <2>1. reply' \in [Requests -> [kind: Kinds, record: Requests \union {None},
                                   response: Requests \union {None}]]
      BY DEF IdempotencyTypeOK, Kinds, Refusal
    <2>2. life' \in [Requests -> {"none", "held", "lapsed", "outlived"}]
      BY DEF IdempotencyTypeOK
    <2>3. request' \in [Requests -> [pc: Serving \union {"new", "done"},
                                     body: Bodies \union {None}]]
      BY DEF IdempotencyTypeOK, Serving
    <2> QED
      BY <2>1, <2>2, <2>3 DEF IdempotencyTypeOK, RecordShape
  <1>2. life[q] = "none" /\ ~Governed(q)
    BY DEF Arrived, Governed
  <1>3. \A x \in Requests \ {q} : /\ request'[x] = request[x] /\ reply'[x] = reply[x]
                                  /\ life'[x] = life[x]
    BY DEF IdempotencyTypeOK
  <1>4. request'[q] = [pc |-> pc, body |-> b] /\ life'[q] = "held" /\ ~Governed(q)'
    <2>1. reply[q].kind = "none"
      BY DEF Arrived
    <2>2. reply'[q].kind \in {"none", "error"}
      BY <2>1 DEF IdempotencyTypeOK, Refusal
    <2> QED
      BY <2>2 DEF IdempotencyTypeOK, Governed
  <1>5. Arrived' /\ LapsedIsDone'
    BY <1>3, <1>4 DEF Arrived, LapsedIsDone
  <1>6. RecordIsKnown'
    BY <1>4 DEF RecordIsKnown
  <1>7. \A x \in Requests : Governed(x)' <=> x # q /\ Governed(x)
    BY <1>2, <1>3, <1>4 DEF Governed
  <1>8. \A x \in Requests : Governed(x) => reply[x].record # q /\ reply[x].response # q
    BY <1>2 DEF AnswerIsRecorded
  <1>9. \A x \in Requests : Governed(x) => life[reply[x].record] # "held"
    <2> SUFFICES ASSUME NEW x \in Requests, Governed(x), life[reply[x].record] = "held"
                 PROVE  FALSE
      OBVIOUS
    <2>1. record.id = reply[x].record /\ record.state = "COMPLETED"
      BY DEF AnswerIsRecorded
    <2> QED
      BY <2>1 DEF Free, Removable, RecordIsKnown
  <1>10. AnswerIsRecorded'
    BY <1>3, <1>4, <1>7, <1>8, <1>9 DEF AnswerIsRecorded
  <1>11. AnswersAgree'
    BY <1>3, <1>7, <1>8 DEF AnswersAgree, AnswerIsRecorded
  <1>12. OneExecution'
    <2> SUFFICES ASSUME \A x \in Requests : life'[x] # "outlived",
                        NEW p \in Requests, request'[p].pc \in Serving, p # q
                 PROVE  FALSE
      BY DEF OneExecution
    <2>1. \A x \in Requests : life[x] # "outlived"
      BY <1>2, <1>3
    <2>2. request[p].pc \in Serving
      BY <1>3
    <2>3. record.id = p
      BY <2>1, <2>2 DEF OneExecution
    <2>4. record.state # "ABSENT" /\ record.expired
      BY <2>3 DEF IdempotencyTypeOK, RecordShape, Free, Removable
    <2>5. life[p] = "lapsed"
      BY <2>1, <2>3, <2>4 DEF RecordIsKnown, IdempotencyTypeOK
    <2> QED
      BY <2>2, <2>5 DEF LapsedIsDone, Serving
  <1> QED
    BY <1>1, <1>5, <1>6, <1>10, <1>11, <1>12

\* A request arrives and is refused; nothing else changes.
LEMMA RefuseStep ==
  ASSUME IIdem, NEW q \in Requests, NEW b \in Bodies, request[q].pc = "new",
         UNCHANGED <<record, life>>, request' = [request EXCEPT ![q] = [pc |-> "done", body |-> b]],
         NEW kind \in {"reused", "in_flight", "error"}, reply' = [reply EXCEPT ![q] = Refusal(kind)]
  PROVE  IIdem'
  <1> USE IdempotencyAssumption DEF IIdem
  <1>1. record' = record /\ life' = life
    OBVIOUS
  <1>2. IdempotencyTypeOK'
    BY <1>1 DEF IdempotencyTypeOK, RecordShape, Kinds, Refusal
  <1>3. \A x \in Requests \ {q} : request'[x] = request[x] /\ reply'[x] = reply[x]
    BY DEF IdempotencyTypeOK
  <1>4. request'[q] = [pc |-> "done", body |-> b] /\ ~Governed(q)'
    BY DEF IdempotencyTypeOK, Governed, Refusal
  <1>5. \A x \in Requests : Governed(x)' => x # q /\ Governed(x)
    BY <1>3, <1>4 DEF Governed
  <1>6. Arrived' /\ LapsedIsDone'
    BY <1>1, <1>3, <1>4 DEF Arrived, LapsedIsDone
  <1>7. RecordIsKnown'
    <2> SUFFICES ASSUME record.state # "ABSENT" PROVE RecordIsKnown'
      BY DEF RecordIsKnown
    <2>1. record.id \in Requests /\ record.id # q
      BY DEF RecordIsKnown, IdempotencyTypeOK, RecordShape
    <2>2. record.state = "COMPLETED" => record.response \in Requests /\ record.response # q
      BY DEF RecordIsKnown, IdempotencyTypeOK, RecordShape
    <2> QED
      BY <1>1, <1>3, <2>1, <2>2 DEF RecordIsKnown
  <1>8. \A x \in Requests : Governed(x) => reply[x].response # q
    BY DEF AnswerIsRecorded
  <1>9. AnswerIsRecorded'
    BY <1>1, <1>3, <1>5, <1>8 DEF AnswerIsRecorded
  <1>10. AnswersAgree'
    BY <1>1, <1>3, <1>5, <1>8 DEF AnswersAgree
  <1>11. OneExecution'
    BY <1>1, <1>3, <1>4 DEF OneExecution, Serving
  <1> QED
    BY <1>2, <1>6, <1>7, <1>9, <1>10, <1>11

\* A request arrives and is replayed the response the live record holds.
LEMMA ReplayStep ==
  ASSUME IIdem, NEW q \in Requests, NEW b \in Bodies, Replay(q, b)
  PROVE  IIdem'
  <1> USE IdempotencyAssumption DEF IIdem, Replay, SameBody
  <1>1. IdempotencyTypeOK'
    BY DEF IdempotencyTypeOK, RecordShape, Kinds
  <1>2. \A x \in Requests \ {q} : request'[x] = request[x] /\ reply'[x] = reply[x]
    BY DEF IdempotencyTypeOK
  <1>3. /\ request'[q] = [pc |-> "done", body |-> b]
        /\ reply'[q] = [kind |-> "replay", record |-> record.id, response |-> record.response]
    BY DEF IdempotencyTypeOK
  <1>4. /\ record.id \in Requests \ {q} /\ record.response \in Requests \ {q}
        /\ request[record.response].body = b /\ request[record.response].pc # "new"
        /\ life[record.id] # "none"
    BY DEF RecordIsKnown, IdempotencyTypeOK, RecordShape
  <1>5. \A x \in Requests \ {q} : Governed(x)' <=> Governed(x)
    BY <1>2 DEF Governed
  <1>6. Arrived' /\ LapsedIsDone'
    BY <1>2, <1>3 DEF Arrived, LapsedIsDone
  <1>7. RecordIsKnown'
    BY <1>2, <1>4 DEF RecordIsKnown
  <1>8. AnswerIsRecorded'
    <2>1. \A x \in Requests \ {q} : Governed(x) => reply[x].response # q
      BY DEF AnswerIsRecorded
    <2> QED
      BY <1>2, <1>3, <1>4, <1>5, <2>1 DEF AnswerIsRecorded
  <1>9. AnswersAgree'
    BY <1>2, <1>3, <1>4, <1>5, <1>8 DEF AnswersAgree, AnswerIsRecorded
  <1>10. OneExecution'
    BY <1>2, <1>3 DEF OneExecution, Serving
  <1> QED
    BY <1>1, <1>6, <1>7, <1>8, <1>9, <1>10

\* A request that is being served moves on, is answered with an error, or dies.
LEMMA MoveStep ==
  ASSUME IIdem, NEW q \in Requests, request[q].pc \in Serving, UNCHANGED <<record, life>>,
         NEW pc \in Serving \union {"done"}, Goes(q, pc),
         UNCHANGED reply \/ reply' = [reply EXCEPT ![q] = Refusal("error")]
  PROVE  IIdem'
  <1> USE IdempotencyAssumption DEF IIdem, Goes, Serving
  <1>1. IdempotencyTypeOK'
    BY DEF IdempotencyTypeOK, RecordShape, Kinds, Refusal
  <1>2. \A x \in Requests : /\ request'[x].body = request[x].body
                            /\ request'[x].pc = "new" <=> request[x].pc = "new"
                            /\ request'[x].pc \in Serving => request[x].pc \in Serving
                            /\ request[x].pc = "done" => request'[x].pc = "done"
    BY DEF IdempotencyTypeOK
  <1>3. \A x \in Requests : /\ reply[x].kind = "none" => x = q \/ reply'[x].kind = "none"
                            /\ Governed(x)' => Governed(x) /\ reply'[x] = reply[x]
    BY DEF IdempotencyTypeOK, Governed, Refusal
  <1>4. Arrived' /\ LapsedIsDone'
    BY <1>2, <1>3 DEF Arrived, LapsedIsDone
  <1>5. RecordIsKnown'
    BY <1>2 DEF RecordIsKnown, IdempotencyTypeOK, RecordShape
  <1>6. AnswerIsRecorded'
    BY <1>2, <1>3 DEF AnswerIsRecorded
  <1>7. AnswersAgree'
    BY <1>2, <1>3 DEF AnswersAgree, AnswerIsRecorded
  <1>8. OneExecution'
    BY <1>2 DEF OneExecution
  <1> QED
    BY <1>1, <1>4, <1>5, <1>6, <1>7, <1>8

\* The record takes a response, whether the client hears of it or not (Complete).
LEMMA RecordStep ==
  ASSUME IIdem, NEW q \in Requests, request[q].pc = "complete", OwnsInFlight(q),
         record' = Completed(q), UNCHANGED life,
         \/ Goes(q, "release") /\ UNCHANGED reply
         \/ Answered(q, [kind |-> "result", record |-> record.id, response |-> q])
  PROVE  IIdem'
  <1> USE IdempotencyAssumption DEF IIdem, Goes, Answered, OwnsInFlight, SameBody, Completed
  <1>1. IdempotencyTypeOK'
    <2>1. record.id \in Requests
      BY DEF IdempotencyTypeOK, RecordShape
    <2>2. record' \in [state: {"ABSENT", "IN_FLIGHT", "COMPLETED"}, id: Requests \union {None},
                       body: Bodies \union {None}, response: Requests \union {None},
                       expired: BOOLEAN]
      BY DEF IdempotencyTypeOK
    <2>3. RecordShape'
      BY DEF IdempotencyTypeOK, RecordShape
    <2>4. request' \in [Requests -> [pc: Serving \union {"new", "done"},
                                     body: Bodies \union {None}]]
      BY DEF IdempotencyTypeOK, Serving
    <2>5. reply' \in [Requests -> [kind: Kinds, record: Requests \union {None},
                                   response: Requests \union {None}]]
      BY <2>1 DEF IdempotencyTypeOK, Kinds
    <2> QED
      BY <2>2, <2>3, <2>4, <2>5 DEF IdempotencyTypeOK
  <1>2. \A x \in Requests : /\ request'[x].body = request[x].body
                            /\ request'[x].pc = "new" <=> request[x].pc = "new"
                            /\ request'[x].pc \in Serving => request[x].pc \in Serving
                            /\ request[x].pc = "done" => request'[x].pc = "done"
    BY DEF IdempotencyTypeOK, Serving
  <1>3. \A x \in Requests \ {q} : reply'[x] = reply[x] /\ (Governed(x)' <=> Governed(x))
    BY DEF IdempotencyTypeOK, Governed
  <1>4. \/ reply'[q] = reply[q] /\ (Governed(q)' <=> Governed(q))
        \/ reply'[q] = [kind |-> "result", record |-> record.id, response |-> q]
    BY DEF IdempotencyTypeOK, Governed
  <1>5. /\ record.id \in Requests /\ record'.id = record.id /\ record'.body = record.body
        /\ record'.expired = record.expired /\ record'.state = "COMPLETED"
        /\ record'.response = q
    BY DEF IdempotencyTypeOK, RecordShape
  <1>6. Arrived' /\ LapsedIsDone'
    BY <1>2, <1>3, <1>4 DEF Arrived, LapsedIsDone
  <1>7. RecordIsKnown'
    BY <1>2, <1>5 DEF RecordIsKnown
  <1>8. \A x \in Requests : Governed(x) => reply[x].record # record.id
    BY DEF AnswerIsRecorded
  <1>9. AnswerIsRecorded'
    <2>1. life[record.id] # "none"
      BY DEF RecordIsKnown
    <2> QED
      BY <1>2, <1>3, <1>4, <1>5, <1>8, <2>1 DEF AnswerIsRecorded
  <1>10. AnswersAgree'
    BY <1>2, <1>3, <1>4, <1>8, <1>9 DEF AnswersAgree, AnswerIsRecorded
  <1>11. OneExecution'
    BY <1>2, <1>5 DEF OneExecution
  <1> QED
    BY <1>1, <1>6, <1>7, <1>9, <1>10, <1>11

\* The record goes: a request releases it in flight, so it holds no answer ...
LEMMA ReleaseStep ==
  ASSUME IIdem, NEW q \in Requests, Release(q), OwnsInFlight(q), record' = Absent
  PROVE  IIdem'
  <1> USE IdempotencyAssumption
      DEF IIdem, Goes, Answered, OwnsInFlight, SameBody, Absent, Release, Serving
  <1>1. IdempotencyTypeOK'
    BY DEF IdempotencyTypeOK, RecordShape, Kinds, Refusal
  <1>2. \A x \in Requests : /\ request'[x].body = request[x].body
                            /\ request'[x].pc = "new" <=> request[x].pc = "new"
                            /\ request'[x].pc \in Serving => x # q /\ request[x].pc \in Serving
                            /\ request[x].pc = "done" => request'[x].pc = "done"
    BY DEF IdempotencyTypeOK
  <1>3. \A x \in Requests : /\ reply[x].kind = "none" => x = q \/ reply'[x].kind = "none"
                            /\ Governed(x)' => Governed(x) /\ reply'[x] = reply[x]
    BY DEF IdempotencyTypeOK, Governed, Refusal
  <1>4. Arrived' /\ LapsedIsDone' /\ RecordIsKnown'
    BY <1>2, <1>3 DEF Arrived, LapsedIsDone, RecordIsKnown
  <1>5. \A x \in Requests : Governed(x) => reply[x].record # record.id
    BY DEF AnswerIsRecorded
  <1>6. AnswerIsRecorded'
    BY <1>2, <1>3, <1>5 DEF AnswerIsRecorded
  <1>7. AnswersAgree'
    BY <1>2, <1>3 DEF AnswersAgree, AnswerIsRecorded
  <1>8. OneExecution'
    BY <1>2 DEF OneExecution
  <1> QED
    BY <1>1, <1>4, <1>6, <1>7, <1>8

\* ... or the cleanup removes it after its TTL, when no answer of it is held.
LEMMA CleanUpStep ==
  ASSUME IIdem, CleanUp
  PROVE  IIdem'
  <1> USE IdempotencyAssumption DEF IIdem, CleanUp, Sweepable, Absent
  <1>1. IdempotencyTypeOK'
    BY DEF IdempotencyTypeOK, RecordShape
  <1>2. Arrived' /\ LapsedIsDone' /\ RecordIsKnown'
    BY DEF Arrived, LapsedIsDone, RecordIsKnown
  <1>3. \A x \in Requests : Governed(x) => life[reply[x].record] # "held"
    BY DEF AnswerIsRecorded, RecordIsKnown
  <1>4. AnswerIsRecorded' /\ AnswersAgree'
    BY <1>3 DEF AnswerIsRecorded, AnswersAgree, Governed
  <1>5. OneExecution'
    BY DEF OneExecution, IdempotencyTypeOK, RecordShape, RecordIsKnown, LapsedIsDone, Serving
  <1> QED
    BY <1>1, <1>2, <1>4, <1>5

\* TTL passes: the record's life is no longer held.
LEMMA ExpireStep ==
  ASSUME IIdem, Expire
  PROVE  IIdem'
  <1> USE IdempotencyAssumption DEF IIdem, Expire
  <1>1. record.id \in Requests
    BY DEF IdempotencyTypeOK, RecordShape
  <1>2. IdempotencyTypeOK'
    BY <1>1 DEF IdempotencyTypeOK, RecordShape
  <1>3. /\ \A x \in Requests \ {record.id} : life'[x] = life[x]
        /\ life'[record.id] \in {"lapsed", "outlived"}
        /\ life'[record.id] = "lapsed" => request[record.id].pc \notin Serving
    BY <1>1 DEF IdempotencyTypeOK
  <1>4. /\ record'.state = record.state /\ record'.id = record.id /\ record'.body = record.body
        /\ record'.response = record.response /\ record'.expired = TRUE
    BY DEF IdempotencyTypeOK
  <1>5. request[record.id].pc # "new"
    BY DEF RecordIsKnown
  <1>6. Arrived' /\ RecordIsKnown'
    BY <1>1, <1>3, <1>4, <1>5 DEF Arrived, RecordIsKnown
  <1>7. LapsedIsDone'
    BY <1>1, <1>3, <1>5 DEF LapsedIsDone, IdempotencyTypeOK
  <1>8. \A x \in Requests : Governed(x)' <=> Governed(x)
    BY DEF Governed
  <1>9. AnswerIsRecorded' /\ AnswersAgree'
    BY <1>1, <1>3, <1>4, <1>8 DEF AnswerIsRecorded, AnswersAgree
  <1>10. OneExecution'
    <2>1. life[record.id] = "held"
      BY DEF RecordIsKnown
    <2> QED
      BY <1>1, <1>3, <1>4, <2>1 DEF OneExecution
  <1> QED
    BY <1>2, <1>6, <1>7, <1>9, <1>10

\* Every step preserves the invariant: one case per action.
LEMMA IdemStep == IIdem /\ [IdempotencyNext]_idemVars => IIdem'
  <1> SUFFICES ASSUME IIdem, [IdempotencyNext]_idemVars PROVE IIdem'
    OBVIOUS
  <1>1. CASE UNCHANGED idemVars
    BY <1>1 DEF idemVars, IIdem, IdempotencyTypeOK, RecordShape, Arrived, RecordIsKnown,
       AnswerIsRecorded, LapsedIsDone, OneExecution, AnswersAgree, Governed
  <1>2. ASSUME NEW q \in Requests, NEW b \in Bodies, Begin(q, b)
        PROVE  IIdem'
    BY <1>2, AcquireStep DEF Begin
  <1>3. ASSUME NEW q \in Requests, NEW b \in Bodies, Refuse(q, b)
        PROVE  IIdem'
    BY <1>3, RefuseStep DEF Refuse
  <1>4. ASSUME NEW q \in Requests, NEW b \in Bodies, Replay(q, b)
        PROVE  IIdem'
    BY <1>4, ReplayStep
  <1>5. ASSUME NEW q \in Requests, NEW b \in Bodies, BeginFails(q, b)
        PROVE  IIdem'
    BY <1>5, AcquireStep, RefuseStep DEF BeginFails
  <1>6. ASSUME NEW q \in Requests, Execute(q) \/ ExecuteFails(q) \/ Crash(q)
        PROVE  IIdem'
    BY <1>6, MoveStep DEF Execute, ExecuteFails, Crash, Serving
  <1>7. ASSUME NEW q \in Requests, Complete(q) \/ CompleteFails(q)
        PROVE  IIdem'
    BY <1>7, RecordStep, MoveStep DEF Complete, CompleteFails, Serving
  <1>8. ASSUME NEW q \in Requests, Release(q)
        PROVE  IIdem'
    <2>1. CASE OwnsInFlight(q) /\ record' = Absent
      BY <1>8, <2>1, ReleaseStep
    <2>2. CASE UNCHANGED record
      BY <1>8, <2>2, MoveStep DEF Release, Answered, Serving
    <2> QED
      BY <1>8, <2>1, <2>2 DEF Release
  <1> QED
    BY <1>1, <1>2, <1>3, <1>4, <1>5, <1>6, <1>7, <1>8, ExpireStep, CleanUpStep
    DEF IdempotencyNext, Serve

\* The invariant holds in every reachable state.
LEMMA IdemInvariant == IdempotencySpec => []IIdem
  BY IdemInit, IdemStep, PTL DEF IdempotencySpec

-----------------------------------------------------------------------------
\* All who are answered from one record are answered the same, and their bodies
\* are the executed one's (Begin, Complete, Release and the cleanup worker).
THEOREM AnswersAlwaysAgree == IdempotencySpec => []AnswersAgree
  <1>1. IIdem => AnswersAgree
    BY DEF IIdem
  <1> QED
    BY <1>1, IdemInvariant, PTL

\* An answer stands until its record's TTL has passed, also when the completion
\* that recorded it was reported as failed and its request releases the key.
THEOREM AnswersStand == IdempotencySpec => []AnswerStands
  <1>1. IIdem => AnswerStands
    BY DEF IIdem, AnswerIsRecorded, AnswerStands
  <1> QED
    BY <1>1, IdemInvariant, PTL

\* While no request is served for longer than TTL, one at a time holds the key.
THEOREM ExecutionsAlone == IdempotencySpec => []OneExecution
  <1>1. IIdem => OneExecution
    BY DEF IIdem
  <1> QED
    BY <1>1, IdemInvariant, PTL

\* The record, the requests and the histories stay in their types, whatever is
\* released, lapses or is cleaned up.
THEOREM IdempotencyTypeCorrect == IdempotencySpec => []IdempotencyTypeOK
  <1>1. IIdem => IdempotencyTypeOK
    BY DEF IIdem
  <1> QED
    BY <1>1, IdemInvariant, PTL
=============================================================================
