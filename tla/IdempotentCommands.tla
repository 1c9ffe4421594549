-------------------------- MODULE IdempotentCommands --------------------------
(***************************************************************************)
(* The idempotency boundary of the write endpoints: the middleware of      *)
(* internal/platform/idempotency and its record in the control database,   *)
(* for ONE key (tenant, actor, endpoint and Idempotency-Key).              *)
(*                                                                         *)
(* A request acquires the key, executes its handler and completes the      *)
(* record with the response; later requests with the key are replayed that *)
(* response, or refused.  A 5xx response or a panic releases the key.  A   *)
(* record lives for TTL, after which it may be removed at any time.        *)
(*                                                                         *)
(* Abstractions.  A client's retry is another request.  A record is named  *)
(* by the request that inserted it (its random id), and the response of an *)
(* execution by the request executed.  Begin's INSERT and SELECT are one   *)
(* step; that the record vanishes between them is a failure of Begin.      *)
(***************************************************************************)
EXTENDS Naturals

CONSTANTS
    Requests,  \* requests that arrive with the key
    Bodies,    \* canonical request bodies: what CanonicalRequestBody hashes
    None       \* a null column

ASSUME IdempotencyAssumption == None \notin Requests \union Bodies

VARIABLES
    record,   \* askdata.idempotency_records, the row of the key
    request,  \* where the middleware is with each request, and its body
    reply,    \* what each client has been answered
    life      \* history: what became of the record each request inserted

idemVars == <<record, request, reply, life>>

Serving == {"execute", "complete", "release"}
Kinds == {"none", "result", "replay", "in_flight", "reused", "error"}

\* The shape constraint of the table: a response exactly when COMPLETED.
RecordShape ==
    /\ record.state = "ABSENT" <=> record.id = None
    /\ record.state = "ABSENT" <=> record.body = None
    /\ record.state = "COMPLETED" <=> record.response # None

IdempotencyTypeOK ==
    /\ record \in [state: {"ABSENT", "IN_FLIGHT", "COMPLETED"}, id: Requests \union {None},
                   body: Bodies \union {None}, response: Requests \union {None},
                   expired: BOOLEAN]
    /\ RecordShape
    /\ request \in [Requests -> [pc: Serving \union {"new", "done"}, body: Bodies \union {None}]]
    /\ reply \in [Requests -> [kind: Kinds, record: Requests \union {None},
                               response: Requests \union {None}]]
    /\ life \in [Requests -> {"none", "held", "lapsed", "outlived"}]

-----------------------------------------------------------------------------
Absent == [state |-> "ABSENT", id |-> None, body |-> None, response |-> None, expired |-> FALSE]
Refusal(kind) == [kind |-> kind, record |-> None, response |-> None]
NoReply == Refusal("none")

IdempotencyInit ==
    /\ record = Absent
    /\ request = [q \in Requests |-> [pc |-> "new", body |-> None]]
    /\ reply = [q \in Requests |-> NoReply]
    /\ life = [q \in Requests |-> "none"]

Goes(q, step) == request' = [request EXCEPT ![q].pc = step]
Answered(q, answer) == Goes(q, "done") /\ reply' = [reply EXCEPT ![q] = answer]

AlwaysRemovable == TRUE
\* expires_at has passed, on the caller's clock and on the database's.
Removable == record.expired
Free == record.state = "ABSENT" \/ Removable

Acquire(q, b) ==
    /\ Free
    /\ record' = [Absent EXCEPT !.state = "IN_FLIGHT", !.id = q, !.body = b]
    /\ life' = [life EXCEPT ![q] = "held"]

BodyIgnored(b) == TRUE
SameBody(b) == record.body = b

\* A request that finds a live record: the other body is looked at first.
Begin(q, b) ==
    /\ request[q].pc = "new"
    /\ Acquire(q, b)
    /\ request' = [request EXCEPT ![q] = [pc |-> "execute", body |-> b]]
    /\ UNCHANGED reply

Refuse(q, b) ==
    /\ request[q].pc = "new"
    /\ ~Free
    /\ request' = [request EXCEPT ![q] = [pc |-> "done", body |-> b]]
    /\ \/ ~SameBody(b) /\ reply' = [reply EXCEPT ![q] = Refusal("reused")]
       \/ /\ SameBody(b) /\ record.state = "IN_FLIGHT"
          /\ reply' = [reply EXCEPT ![q] = Refusal("in_flight")]
    /\ UNCHANGED <<record, life>>

Replay(q, b) ==
    /\ request[q].pc = "new"
    /\ ~Free
    /\ SameBody(b) /\ record.state = "COMPLETED"
    /\ request' = [request EXCEPT ![q] = [pc |-> "done", body |-> b]]
    /\ reply' = [reply EXCEPT ![q] =
                   [kind |-> "replay", record |-> record.id, response |-> record.response]]
    /\ UNCHANGED <<record, life>>

\* Begin returns an error: nothing was done, or its commit was not heard of and
\* the key stays taken.
BeginFails(q, b) ==
    /\ request[q].pc = "new"
    /\ Acquire(q, b) \/ UNCHANGED <<record, life>>
    /\ request' = [request EXCEPT ![q] = [pc |-> "done", body |-> b]]
    /\ reply' = [reply EXCEPT ![q] = Refusal("error")]

\* The handler returns a 2xx or 4xx response that can be replayed ...
Execute(q) ==
    /\ request[q].pc = "execute"
    /\ Goes(q, "complete")
    /\ UNCHANGED <<record, reply, life>>
\* ... or a 5xx, one that is no JSON or was cut at the size limit, or it panics.
ExecuteFails(q) ==
    /\ request[q].pc = "execute"
    /\ Goes(q, "release")
    /\ UNCHANGED <<record, reply, life>>

\* The predicate of Complete and Release: key, body and state, no owner.
OwnsInAnyState(q) == record.state # "ABSENT" /\ SameBody(request[q].body)
OwnsInFlight(q) == record.state = "IN_FLIGHT" /\ SameBody(request[q].body)

StateOnly(q) == [record EXCEPT !.state = "COMPLETED"]
Completed(q) == [record EXCEPT !.state = "COMPLETED", !.response = q]

Complete(q) ==
    /\ request[q].pc = "complete"
    /\ OwnsInFlight(q)
    /\ record' = Completed(q)
    /\ Answered(q, [kind |-> "result", record |-> record.id, response |-> q])
    /\ UNCHANGED life

\* Complete returns an error: no row matched or the database failed, perhaps
\* after the commit.
CompleteFails(q) ==
    /\ request[q].pc = "complete"
    /\ UNCHANGED record \/ (OwnsInFlight(q) /\ record' = Completed(q))
    /\ Goes(q, "release")
    /\ UNCHANGED <<reply, life>>

\* Release's own error is ignored.
Release(q) ==
    /\ request[q].pc = "release"
    /\ UNCHANGED record \/ (OwnsInFlight(q) /\ record' = Absent)
    /\ Answered(q, Refusal("error"))
    /\ UNCHANGED life

\* The process dies, or the connection to the client breaks at the end.
Crash(q) ==
    /\ request[q].pc \in Serving
    /\ Goes(q, "done")
    /\ UNCHANGED <<record, reply, life>>

\* TTL passes.  Nothing bounds the time a handler takes.
Expire ==
    /\ record.state # "ABSENT" /\ ~record.expired
    /\ record' = [record EXCEPT !.expired = TRUE]
    /\ life' = [life EXCEPT ![record.id] =
                  IF request[record.id].pc \in Serving THEN "outlived" ELSE "lapsed"]
    /\ UNCHANGED <<request, reply>>

OnlyCompleted == record.expired /\ record.state = "COMPLETED"
\* The cleanup worker: by id and expiry, whatever the state.
Sweepable == record.expired
CleanUp ==
    /\ Sweepable
    /\ record' = Absent
    /\ UNCHANGED <<request, reply, life>>

Serve(q) == Execute(q) \/ ExecuteFails(q) \/ Complete(q) \/ CompleteFails(q) \/ Release(q)

IdempotencyNext ==
    \/ \E q \in Requests :
         \/ \E b \in Bodies : Begin(q, b) \/ Refuse(q, b) \/ Replay(q, b) \/ BeginFails(q, b)
         \/ Serve(q) \/ Crash(q)
    \/ Expire \/ CleanUp

IdempotencySpec == IdempotencyInit /\ [][IdempotencyNext]_idemVars

\* Clocks advance and cmd/worker cleans every tenant on a ticker.
FairIdempotencySpec ==
    IdempotencySpec /\ WF_idemVars(Expire) /\ WF_idemVars(CleanUp)

-----------------------------------------------------------------------------
(* Properties.                                                             *)

Governed(q) == reply[q].kind \in {"result", "replay"}

\* Whoever is answered from one record is answered the same: the response of one
\* execution, to requests with the body that was executed.  No retry, late
\* completion or cleanup hands a client another command's response.
AnswersAgree ==
    \A p, q \in Requests :
        Governed(p) /\ Governed(q) /\ reply[p].record = reply[q].record
          => /\ reply[p].response = reply[q].response
             /\ request[p].body = request[q].body
             /\ request[reply[p].response].body = request[p].body

\* An answer stands until its record's TTL has passed: the record still holds
\* it, so the command is not executed again, whatever is released meanwhile.
AnswerStands ==
    \A q \in Requests :
        Governed(q) /\ life[reply[q].record] = "held"
          => /\ record.state = "COMPLETED"
             /\ record.id = reply[q].record /\ record.response = reply[q].response

\* As long as no request has been served for longer than TTL, one request at a
\* time holds the key, and the record is its own: Complete and Release need no
\* owner to compare.
OneExecution ==
    (\A q \in Requests : life[q] # "outlived") =>
        \A q \in Requests : request[q].pc \in Serving => record.id = q

\* A key does not stay taken for ever: a request that died releases it when TTL
\* has passed and the cleanup comes by.
KeyIsFreed == record.state = "IN_FLIGHT" ~> record.state # "IN_FLIGHT"
=============================================================================
