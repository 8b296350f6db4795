---------------------------- MODULE Destination ----------------------------
(***************************************************************************)
(* The destination service (services/mock-target), as far as one run's     *)
(* deliveries go: the records it stores, the failure somebody armed for    *)
(* the run, and its handlers.  A handler is given as a relation between    *)
(* the state, the next state and the answer it sends.                      *)
(*                                                                         *)
(* An idempotency key is run|key|generation, and the run is fixed, so a    *)
(* pair of a natural key and a generation stands for it.                   *)
(***************************************************************************)
EXTENDS DeliveryLog

CONSTANTS
    Keys,           \* natural keys of the records of the run
    Payloads,       \* contents a record may be sent with
    Invalid         \* the payloads the registered schema refuses

ASSUME InvalidAssumption == Invalid \subseteq Payloads

VARIABLES
    records,        \* the table target_records
    failure         \* the failure armed for the run

destinationVars == <<records, failure>>

FailureModes == {"transient", "timeout", "uncertain"}
NoFailure == [mode |-> "none", remaining |-> 0]
StoredRecords ==
    [key : Keys, gen : Nat \ {0}, payload : Payloads, state : {"accepted", "rolled_back"}]

DestinationTypeOK ==
    /\ records \subseteq StoredRecords
    /\ failure \in {NoFailure} \union [mode : FailureModes, remaining : Nat \ {0}]

DestinationInit ==
    /\ records = {}
    /\ failure = NoFailure

\* What is stored under one idempotency key, and what counts as held.
RecordsAt(k, g) == {r \in records : r.key = k /\ r.gen = g}
IsStored(k, g) == RecordsAt(k, g) # {}
Held(k) == {r \in records : r.key = k /\ r.state = "accepted"}
Tombstoned(k, g) == \E r \in RecordsAt(k, g) : r.state = "rolled_back"

-----------------------------------------------------------------------------
(***************************************************************************)
(* POST /admin/failure-mode.                                               *)
(***************************************************************************)
SetFailure(mode, remaining) ==
    failure' = IF mode = "none" \/ remaining = 0
               THEN NoFailure
               ELSE [mode |-> mode, remaining |-> remaining]

(***************************************************************************)
(* POST /records.  The handler looks the idempotency key up first; only    *)
(* when it is new does it go on, in a second step, to the armed failure,   *)
(* the validation and the insert.  Other requests may be handled between.  *)
(***************************************************************************)
Answer(status, id) == [status |-> status, id |-> id]

\* The first step, when the key is known: the answer depends on the payload,
\* and not on whether the record has been rolled back since.
AnswerKnown(q, answer) ==
    \E r \in RecordsAt(q.key, q.gen) :
        answer = IF r.payload = q.payload
                 THEN Answer("duplicate", q.gen)
                 ELSE Answer("conflict", NoId)

\* Mutant: INSERT OR REPLACE.
Store_Replaces(q) ==
    records' = (records \ RecordsAt(q.key, q.gen)) \union
                 {[key |-> q.key, gen |-> q.gen, payload |-> q.payload,
                   state |-> "accepted"]}

\* INSERT OR IGNORE: a key stored in the meantime keeps its record, and the id
\* made for the new one names nothing.
Store(q) ==
    records' = IF IsStored(q.key, q.gen)
               THEN records
               ELSE records \union {[key |-> q.key, gen |-> q.gen,
                                     payload |-> q.payload, state |-> "accepted"]}
StoredId(q) == IF IsStored(q.key, q.gen) THEN Phantom ELSE q.gen

\* An armed failure takes the request, and one of the failures left.
FailOnPurpose(q, answer) ==
    /\ failure.mode # "none"
    /\ failure' = IF failure.remaining = 1
                  THEN NoFailure
                  ELSE [failure EXCEPT !.remaining = @ - 1]
    /\ \/ /\ failure.mode = "transient"
          /\ answer = Answer("unavailable", NoId)
          /\ UNCHANGED records
       \/ /\ failure.mode = "timeout"
          /\ answer = Answer("gateway_timeout", NoId)
          /\ UNCHANGED records
       \/ /\ failure.mode = "uncertain"
          /\ answer = Answer("internal_error", NoId)
          /\ Store(q)

\* The second step, when no failure is armed.
ValidateAndStore(q, answer) ==
    /\ failure.mode = "none"
    /\ UNCHANGED failure
    /\ \/ /\ q.payload \in Invalid
          /\ answer = Answer("rejected", NoId)
          /\ UNCHANGED records
       \/ /\ q.payload \notin Invalid
          /\ answer = Answer("accepted", StoredId(q))
          /\ Store(q)

HandleNew(q, answer) == FailOnPurpose(q, answer) \/ ValidateAndStore(q, answer)

(***************************************************************************)
(* GET /records?run_id&natural_key: the accepted records only.  The caller *)
(* takes the first; the id is 0 when there is none.                        *)
(***************************************************************************)
FindAccepted(k, id) ==
    IF Held(k) = {} THEN id = NoId ELSE \E r \in Held(k) : id = r.gen

(***************************************************************************)
(* POST /records/{id}/rollback: a tombstone, never a delete.  An id that   *)
(* names nothing is answered 404; one rolled back before is answered well. *)
(***************************************************************************)
Rollback(k, id, ok) ==
    /\ ok = IsStored(k, id)
    /\ records' = {IF r.key = k /\ r.gen = id
                   THEN [r EXCEPT !.state = "rolled_back"]
                   ELSE r : r \in records}
    /\ UNCHANGED failure
=============================================================================
