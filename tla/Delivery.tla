------------------------------ MODULE Delivery ------------------------------
(***************************************************************************)
(* Pushing one run's records to the destination and undoing the push:      *)
(* services/api main.py (deliver, deliver_ready, _push, rollback),         *)
(* delivery.py (the client with its retries) and the destination's         *)
(* handlers.                                                               *)
(*                                                                         *)
(* The handlers of the API are plain functions run in a thread pool, the   *)
(* background job of a run is a thread of its own, and every SQLite        *)
(* statement commits by itself.  So several pushes and several rollbacks   *)
(* of one run interleave at each statement and at each request.  A request *)
(* the client gave up on may still be handled by the destination, later.   *)
(***************************************************************************)
EXTENDS Destination

CONSTANTS
    Deliverers,     \* threads serving POST /runs/{id}/deliver
    Jobs,           \* background jobs of the run, which send when allowed to: one,
                    \* or more when two requests start the job at the same moment
    Undoers,        \* threads serving POST /runs/{id}/rollback
    NotReady,       \* in place of the payload of a record that may not be sent
    Nobody,         \* what a request is made by once its caller has given up
    MAX_ATTEMPTS    \* attempts per record in one push

ASSUME MaxAttemptsAssumption == MAX_ATTEMPTS \in Nat \ {0}
ASSUME NotReadyAssumption == NotReady \notin Payloads
ASSUME KeysAssumption == Keys # {}
ASSUME ThreadsAssumption ==
    /\ Deliverers \intersect Undoers = {}
    /\ Jobs \intersect (Deliverers \union Undoers) = {}
    /\ Nobody \notin Deliverers \union Undoers \union Jobs

Pushers == Deliverers \union Jobs

VARIABLES
    \* The API's database.
    log,            \* the rows of table deliveries, by natural key
    paused,         \* runs.delivery_paused
    autoSend,       \* runs.auto_send
    \* What the pipeline makes of the files and the decisions at present.
    result,         \* the payload of each record that is ready
    \* Threads that push.
    pc,             \* where each is
    drill,          \* the failure its push rehearses, if any
    ready,          \* result.ready as it read it
    todo,           \* records it has yet to look at
    gens,           \* generations as it read them
    current,        \* the record being sent
    tried,          \* attempts made for it and not yet written to the log
    \* Threads that undo.
    upc,            \* where each is
    seen,           \* accepted_keys as it read them
    targets,        \* rows it has yet to undo
    target,         \* the row being undone
    \* Requests the destination has not finished with.
    creates,        \* POST /records
    undos           \* POST /records/{id}/rollback

apiVars == <<log, paused, autoSend>>
pushVars == <<pc, drill, ready, todo, gens, current, tried>>
undoVars == <<upc, seen, targets, target>>
vars == <<records, failure, log, paused, autoSend, result,
          pc, drill, ready, todo, gens, current, tried,
          upc, seen, targets, target, creates, undos>>

Contents == [Keys -> Payloads \union {NotReady}]
Targets == [key : Keys, gen : Nat \ {0}, id : Ids]
CreateRequests ==
    [by : Pushers \union {Nobody}, key : Keys, gen : Nat \ {0}, payload : Payloads,
     isNew : BOOLEAN]
UndoRequests == [by : Undoers \union {Nobody}, key : Keys, id : Ids]

PushSteps == {"idle", "arm", "load", "gate", "already", "generations", "pick",
              "send", "await", "reconcile", "record"}
UndoSteps == {"idle", "rows", "next", "await", "undone", "failed", "pause"}

TypeOK ==
    /\ DestinationTypeOK
    /\ log \in [Keys -> Seq(Rows)]
    /\ paused \in BOOLEAN
    /\ autoSend \in BOOLEAN
    /\ result \in Contents
    /\ pc \in [Pushers -> PushSteps]
    /\ drill \in [Pushers -> FailureModes \union {"none"}]
    /\ ready \in [Pushers -> Contents]
    /\ todo \in [Pushers -> SUBSET Keys]
    /\ gens \in [Pushers -> [Keys -> Nat \ {0}]]
    /\ current \in [Pushers -> Keys]
    /\ tried \in [Pushers -> Seq(Attempts)]
    /\ upc \in [Undoers -> UndoSteps]
    /\ seen \in [Undoers -> [Keys -> Nat]]
    /\ targets \in [Undoers -> SUBSET Targets]
    /\ target \in [Undoers -> Targets]
    /\ creates \subseteq CreateRequests
    /\ undos \subseteq UndoRequests

\* What a thread holds before it has read anything; no step looks at it.
AnyKey == CHOOSE k \in Keys : TRUE
FirstGenerations == [k \in Keys |-> 1]
NothingReady == [k \in Keys |-> NotReady]
NoTarget == [key |-> AnyKey, gen |-> 1, id |-> NoId]

Init ==
    /\ DestinationInit
    /\ log = [k \in Keys |-> <<>>]
    /\ paused = FALSE
    /\ autoSend = FALSE
    /\ result \in Contents
    /\ pc = [w \in Pushers |-> "idle"]
    /\ drill = [w \in Pushers |-> "none"]
    /\ ready = [w \in Pushers |-> NothingReady]
    /\ todo = [w \in Pushers |-> {}]
    /\ gens = [w \in Pushers |-> FirstGenerations]
    /\ current = [w \in Pushers |-> AnyKey]
    /\ tried = [w \in Pushers |-> <<>>]
    /\ upc = [u \in Undoers |-> "idle"]
    /\ seen = [u \in Undoers |-> [k \in Keys |-> 0]]
    /\ targets = [u \in Undoers |-> {}]
    /\ target = [u \in Undoers |-> NoTarget]
    /\ creates = {}
    /\ undos = {}

\* A push thread steps from one place to another.
Step(w, from, to) == pc[w] = from /\ pc' = [pc EXCEPT ![w] = to]
UndoStep(u, from, to) == upc[u] = from /\ upc' = [upc EXCEPT ![u] = to]

-----------------------------------------------------------------------------
(***************************************************************************)
(* Before a push: the deliver handler, and the background job.             *)
(***************************************************************************)

\* The pipeline's answer changes: a decision, an edited rule.
ResultChanges ==
    /\ result' \in Contents
    /\ result' # result
    /\ UNCHANGED <<destinationVars, apiVars, pushVars, undoVars, creates, undos>>

\* POST deliver: resumes sending, and keeps it on when asked to.
Press(w, mode, keepSending) ==
    /\ w \in Deliverers
    /\ Step(w, "idle", IF mode = "none" THEN "load" ELSE "arm")
    /\ paused' = FALSE
    /\ autoSend' = (autoSend \/ keepSending)
    /\ drill' = [drill EXCEPT ![w] = mode]
    /\ UNCHANGED <<destinationVars, log, result, ready, todo, gens, current, tried,
                   undoVars, creates, undos>>

\* A rehearsed failure is armed at the destination, for three requests.
DRILL_REQUESTS == 3
Arm(w) ==
    /\ Step(w, "arm", "load")
    /\ SetFailure(drill[w], DRILL_REQUESTS)
    /\ UNCHANGED <<records, apiVars, result, drill, ready, todo, gens, current, tried,
                   undoVars, creates, undos>>

\* The result is read and the schema registered with the destination.
Load(w) ==
    /\ Step(w, "load", "already")
    /\ ready' = [ready EXCEPT ![w] = result]
    /\ UNCHANGED <<destinationVars, apiVars, result, drill, todo, gens, current, tried,
                   undoVars, creates, undos>>

\* The end of deliver, by return or by exception: what it armed is disarmed,
\* unless the request to do so fails too, which is only logged.
Leave(w, disarmed) ==
    /\ drill' = [drill EXCEPT ![w] = "none"]
    /\ UNCHANGED records
    /\ IF drill[w] # "none" /\ disarmed
       THEN SetFailure("none", 0)
       ELSE UNCHANGED failure

\* Arming or registering failed: deliver raises, deliver_ready returns.
Unreachable(w, disarmed) ==
    /\ pc[w] \in {"arm", "load", "gate"}
    /\ pc' = [pc EXCEPT ![w] = "idle"]
    /\ Leave(w, disarmed)
    /\ UNCHANGED <<apiVars, result, ready, todo, gens, current, tried,
                   undoVars, creates, undos>>

\* A background job has its result, finds something ready and auto-send on.
JobReady(w) ==
    /\ w \in Jobs
    /\ autoSend
    /\ \E k \in Keys : result[k] # NotReady
    /\ Step(w, "idle", "gate")
    /\ ready' = [ready EXCEPT ![w] = result]
    /\ UNCHANGED <<destinationVars, apiVars, result, drill, todo, gens, current, tried,
                   undoVars, creates, undos>>

\* deliver_ready: a paused run sends nothing; this is the only time it looks.
Gate(w) ==
    /\ Step(w, "gate", IF paused THEN "idle" ELSE "already")
    /\ UNCHANGED <<destinationVars, apiVars, result, drill, ready, todo, gens, current,
                   tried, undoVars, creates, undos>>

-----------------------------------------------------------------------------
(***************************************************************************)
(* _push.  What the destination already has, and the generations, are read *)
(* once each, before the first record is sent.                             *)
(***************************************************************************)
ReadAlready(w) ==
    /\ Step(w, "already", "generations")
    /\ todo' = [todo EXCEPT ![w] =
                  {k \in Keys : ready[w][k] # NotReady /\ ~Accepted(log[k])}]
    /\ UNCHANGED <<destinationVars, apiVars, result, drill, ready, gens, current, tried,
                   undoVars, creates, undos>>

ReadGenerations(w) ==
    /\ Step(w, "generations", "pick")
    /\ gens' = [gens EXCEPT ![w] = [k \in Keys |-> Generation(log[k])]]
    /\ UNCHANGED <<destinationVars, apiVars, result, drill, ready, todo, current, tried,
                   undoVars, creates, undos>>

Pick(w, k) ==
    /\ k \in todo[w]
    /\ Step(w, "pick", "send")
    /\ current' = [current EXCEPT ![w] = k]
    /\ todo' = [todo EXCEPT ![w] = @ \ {k}]
    /\ UNCHANGED <<destinationVars, apiVars, result, drill, ready, gens, tried,
                   undoVars, creates, undos>>

Finish(w, disarmed) ==
    /\ todo[w] = {}
    /\ Step(w, "pick", "idle")
    /\ Leave(w, disarmed)
    /\ UNCHANGED <<apiVars, result, ready, todo, gens, current, tried,
                   undoVars, creates, undos>>

\* Mutant: the generation is asked for again when the row is written.
RecordAttempt_AtCurrentGeneration(w) ==
    LET k == current[w]
        row == [gen |-> Generation(log[k]), outcome |-> Head(tried[w]).outcome,
                id |-> Head(tried[w]).id]
    IN  /\ Step(w, "record", IF Len(tried[w]) = 1 THEN "pick" ELSE "record")
        /\ log' = [log EXCEPT ![k] = Append(@, row)]
        /\ tried' = [tried EXCEPT ![w] = Tail(@)]
        /\ UNCHANGED <<destinationVars, paused, autoSend, result, drill, ready, todo,
                       gens, current, undoVars, creates, undos>>

\* An attempt's rows are written when deliver has returned, one at a time.
RecordAttempt(w) ==
    LET k == current[w]
        row == [gen |-> gens[w][k], outcome |-> Head(tried[w]).outcome,
                id |-> Head(tried[w]).id]
    IN  /\ Step(w, "record", IF Len(tried[w]) = 1 THEN "pick" ELSE "record")
        /\ log' = [log EXCEPT ![k] = Append(@, row)]
        /\ tried' = [tried EXCEPT ![w] = Tail(@)]
        /\ UNCHANGED <<destinationVars, paused, autoSend, result, drill, ready, todo,
                       gens, current, undoVars, creates, undos>>

-----------------------------------------------------------------------------
(***************************************************************************)
(* DestinationClient.deliver: the attempts for one record.                 *)
(***************************************************************************)

\* _send: what the client makes of an answer.
Classify(status) ==
    CASE status \in Successes \union Refusals -> status
      [] status = "internal_error" -> "uncertain"
      [] status \in {"unavailable", "gateway_timeout"} -> "transient_failed"

\* Mutant: whatever is not a success is tried again.
AfterAttempt_RetriesRefusals(outcome, count) ==
    IF outcome \in Successes \/ count = MAX_ATTEMPTS THEN "record"
    ELSE IF outcome = "uncertain" THEN "reconcile"
    ELSE "send"

\* Attempts are over after a success or a refusal, and after MAX_ATTEMPTS.
\* The next one is made blind, except after an uncertain outcome.
AfterAttempt(outcome, count) ==
    IF outcome \notin Retryables \/ count = MAX_ATTEMPTS THEN "record"
    ELSE IF outcome = "uncertain" THEN "reconcile"
    ELSE "send"

Concludes(w, outcome, id) ==
    /\ tried' = [tried EXCEPT ![w] = Append(@, [outcome |-> outcome, id |-> id])]
    /\ pc' = [pc EXCEPT ![w] = AfterAttempt(outcome, Len(tried[w]) + 1)]

Send(w) ==
    LET k == current[w] IN
    /\ Step(w, "send", "await")
    /\ creates' = creates \union
         {[by |-> w, key |-> k, gen |-> gens[w][k], payload |-> ready[w][k],
           isNew |-> FALSE]}
    /\ UNCHANGED <<destinationVars, apiVars, result, drill, ready, todo, gens, current,
                   tried, undoVars, undos>>

\* The destination answers a request, and its caller hears if it still waits.
Hears(q, answer) ==
    IF q.by = Nobody
    THEN UNCHANGED <<pc, tried>>
    ELSE Concludes(q.by, Classify(answer.status), answer.id)

\* The destination has looked up the key of a request and it is there.
DestinationKnows(q) ==
    /\ q \in creates
    /\ ~q.isNew
    /\ \E status \in {"duplicate", "conflict"}, id \in {NoId, q.gen} :
         /\ AnswerKnown(q, Answer(status, id))
         /\ Hears(q, Answer(status, id))
    /\ creates' = creates \ {q}
    /\ UNCHANGED <<destinationVars, apiVars, result, drill, ready, todo, gens, current,
                   undoVars, undos>>

\* ... and it is not there.
DestinationMisses(q) ==
    /\ q \in creates
    /\ ~q.isNew
    /\ ~IsStored(q.key, q.gen)
    /\ creates' = (creates \ {q}) \union {[q EXCEPT !.isNew = TRUE]}
    /\ UNCHANGED <<destinationVars, apiVars, result, pushVars, undoVars, undos>>

\* The destination finishes a request whose key was not there.
Statuses == {"accepted", "rejected", "unavailable", "gateway_timeout", "internal_error"}
DestinationHandles(q) ==
    /\ q \in creates
    /\ q.isNew
    /\ \E status \in Statuses, id \in {NoId, Phantom, q.gen} :
         /\ HandleNew(q, Answer(status, id))
         /\ Hears(q, Answer(status, id))
    /\ creates' = creates \ {q}
    /\ UNCHANGED <<apiVars, result, drill, ready, todo, gens, current, undoVars, undos>>

\* Mutant: a client without a timeout waits for a request that is gone.
NoAnswer_OnlyWhilePending(w, outcome) ==
    LET mine == {q \in creates : q.by = w}
        abandoned == {[q EXCEPT !.by = Nobody] : q \in mine}
    IN  /\ pc[w] = "await"
        /\ mine # {}
        /\ outcome \in Retryables
        /\ Concludes(w, outcome, NoId)
        /\ creates' \in {creates \ mine, (creates \ mine) \union abandoned}
        /\ UNCHANGED <<destinationVars, apiVars, result, drill, ready, todo, gens,
                       current, undoVars, undos>>

\* The client's side of a request ends without an answer: a timeout is taken
\* for uncertain, any other transport error for transient.  The request is
\* gone, or it is still handled and nobody hears the answer.
NoAnswer(w, outcome) ==
    LET mine == {q \in creates : q.by = w}
        abandoned == {[q EXCEPT !.by = Nobody] : q \in mine}
    IN  /\ pc[w] = "await"
        /\ outcome \in Retryables
        /\ Concludes(w, outcome, NoId)
        /\ creates' \in {creates \ mine, (creates \ mine) \union abandoned}
        /\ UNCHANGED <<destinationVars, apiVars, result, drill, ready, todo, gens,
                       current, undoVars, undos>>

\* The record is found at the destination: a duplicate, nothing is sent.
ReconcileFinds(w, id) ==
    /\ pc[w] = "reconcile"
    /\ FindAccepted(current[w], id)
    /\ id # NoId
    /\ tried' = [tried EXCEPT ![w] = Append(@, [outcome |-> "duplicate", id |-> id])]
    /\ pc' = [pc EXCEPT ![w] = "record"]
    /\ UNCHANGED <<destinationVars, apiVars, result, drill, ready, todo, gens, current,
                   undoVars, creates, undos>>

\* It is absent: send again.
ReconcileMisses(w) ==
    /\ FindAccepted(current[w], NoId)
    /\ Step(w, "reconcile", "send")
    /\ UNCHANGED <<destinationVars, apiVars, result, drill, ready, todo, gens, current,
                   tried, undoVars, creates, undos>>

\* Nobody knows, because asking failed: taken for absent.
ReconcileFails(w) ==
    /\ Step(w, "reconcile", "send")
    /\ UNCHANGED <<destinationVars, apiVars, result, drill, ready, todo, gens, current,
                   tried, undoVars, creates, undos>>

-----------------------------------------------------------------------------
(***************************************************************************)
(* The rollback handler.  It reads what is accepted, then the rows again,  *)
(* undoes one record after the other, and pauses sending at the end.       *)
(***************************************************************************)
BeginUndo(u) ==
    /\ UndoStep(u, "idle", "rows")
    /\ seen' = [seen EXCEPT ![u] = [k \in Keys |-> AcceptedGeneration(log[k])]]
    /\ UNCHANGED <<destinationVars, apiVars, result, pushVars, targets, target, creates,
                   undos>>

ReadTargets(u) ==
    /\ UndoStep(u, "rows", "next")
    /\ targets' = [targets EXCEPT ![u] =
         UNION {{[key |-> k, gen |-> log[k][i].gen, id |-> log[k][i].id] :
                   i \in {j \in DOMAIN log[k] : IsUndoTarget(log[k], seen[u][k], j)}} :
                k \in Keys}]
    /\ UNCHANGED <<destinationVars, apiVars, result, pushVars, seen, target, creates,
                   undos>>

AskUndo(u, t) ==
    /\ t \in targets[u]
    /\ UndoStep(u, "next", "await")
    /\ target' = [target EXCEPT ![u] = t]
    /\ targets' = [targets EXCEPT ![u] = @ \ {t}]
    /\ undos' = undos \union {[by |-> u, key |-> t.key, id |-> t.id]}
    /\ UNCHANGED <<destinationVars, apiVars, result, pushVars, seen, creates>>

DestinationUndoes(q) ==
    /\ q \in undos
    /\ \E ok \in BOOLEAN :
         /\ Rollback(q.key, q.id, ok)
         /\ IF q.by = Nobody
            THEN UNCHANGED upc
            ELSE upc' = [upc EXCEPT ![q.by] = IF ok THEN "undone" ELSE "failed"]
    /\ undos' = undos \ {q}
    /\ UNCHANGED <<apiVars, result, pushVars, seen, targets, target, creates>>

\* Mutant: the rollback client has no timeout either.
NoUndoAnswer_OnlyWhilePending(u) ==
    LET mine == {q \in undos : q.by = u}
        abandoned == {[q EXCEPT !.by = Nobody] : q \in mine}
    IN  /\ UndoStep(u, "await", "failed")
        /\ mine # {}
        /\ undos' \in {undos \ mine, (undos \ mine) \union abandoned}
        /\ UNCHANGED <<destinationVars, apiVars, result, pushVars, seen, targets, target,
                       creates>>

\* No answer counts as a failure, whatever the destination does.
NoUndoAnswer(u) ==
    LET mine == {q \in undos : q.by = u}
        abandoned == {[q EXCEPT !.by = Nobody] : q \in mine}
    IN  /\ UndoStep(u, "await", "failed")
        /\ undos' \in {undos \ mine, (undos \ mine) \union abandoned}
        /\ UNCHANGED <<destinationVars, apiVars, result, pushVars, seen, targets, target,
                       creates>>

\* Mutant: a failed undo starts a new generation too.
UndoRow_FailureAdvances(t, ok) ==
    [gen |-> t.gen + 1,
     outcome |-> IF ok THEN "rolled_back" ELSE "rollback_failed",
     id |-> t.id]

\* Mutant: an undo takes the record back a generation.
UndoRow_GoesBack(t, ok) ==
    [gen |-> IF ok THEN t.gen - 1 ELSE t.gen,
     outcome |-> IF ok THEN "rolled_back" ELSE "rollback_failed",
     id |-> t.id]

\* An undo moves the record on a generation; one that failed leaves it.
UndoRow(t, ok) ==
    [gen |-> IF ok THEN t.gen + 1 ELSE t.gen,
     outcome |-> IF ok THEN "rolled_back" ELSE "rollback_failed",
     id |-> t.id]

RecordUndo(u) ==
    /\ upc[u] \in {"undone", "failed"}
    /\ upc' = [upc EXCEPT ![u] = "next"]
    /\ log' = [log EXCEPT ![target[u].key] =
                 Append(@, UndoRow(target[u], upc[u] = "undone"))]
    /\ UNCHANGED <<destinationVars, paused, autoSend, result, pushVars, seen, targets,
                   target, creates, undos>>

PauseSending(u) ==
    /\ targets[u] = {}
    /\ UndoStep(u, "next", "idle")
    /\ paused' = TRUE
    /\ UNCHANGED <<destinationVars, log, autoSend, result, pushVars, seen, targets,
                   target, creates, undos>>

-----------------------------------------------------------------------------
(***************************************************************************)
(* Crashes.  The API loses its threads, never its database; requests it    *)
(* had sent are handled all the same.  The destination loses the requests  *)
(* it was handling and the armed failure, never its records.               *)
(***************************************************************************)
ApiRestarts ==
    /\ pc' = [w \in Pushers |-> "idle"]
    /\ drill' = [w \in Pushers |-> "none"]
    /\ todo' = [w \in Pushers |-> {}]
    /\ tried' = [w \in Pushers |-> <<>>]
    /\ upc' = [u \in Undoers |-> "idle"]
    /\ targets' = [u \in Undoers |-> {}]
    /\ creates' = {[q EXCEPT !.by = Nobody] : q \in creates}
    /\ undos' = {[q EXCEPT !.by = Nobody] : q \in undos}
    /\ UNCHANGED <<destinationVars, apiVars, result, ready, gens, current, seen, target>>

DestinationRestarts ==
    /\ creates' = {}
    /\ undos' = {}
    /\ failure' = NoFailure
    /\ UNCHANGED <<records, apiVars, result, pushVars, undoVars>>

-----------------------------------------------------------------------------
\* What a push thread does by itself.
PusherStep(w) ==
    \/ Arm(w) \/ Load(w)
    \/ Gate(w)
    \/ ReadAlready(w) \/ ReadGenerations(w)
    \/ \E k \in Keys : Pick(w, k)
    \/ Finish(w, TRUE)
    \/ Send(w)
    \/ \E r \in records : ReconcileFinds(w, r.gen)
    \/ ReconcileMisses(w)
    \/ RecordAttempt(w)

\* What a rollback thread does by itself.
UndoerStep(u) ==
    \/ ReadTargets(u)
    \/ \E t \in targets[u] : AskUndo(u, t)
    \/ RecordUndo(u)
    \/ PauseSending(u)

DestinationStep ==
    \/ \E q \in creates : DestinationKnows(q) \/ DestinationMisses(q) \/ DestinationHandles(q)
    \/ \E q \in undos : DestinationUndoes(q)

\* What people ask for.
RequestStep ==
    \/ \E w \in Deliverers, mode \in FailureModes \union {"none"}, keep \in BOOLEAN :
         Press(w, mode, keep)
    \/ \E w \in Jobs : JobReady(w)
    \/ \E u \in Undoers : BeginUndo(u)
    \/ ResultChanges

\* What goes wrong.
FaultStep ==
    \/ \E w \in Pushers, outcome \in Retryables : NoAnswer(w, outcome)
    \/ \E w \in Pushers, disarmed \in BOOLEAN : Unreachable(w, disarmed)
    \/ \E w \in Deliverers : Finish(w, FALSE)
    \/ \E w \in Pushers : ReconcileFails(w)
    \/ \E u \in Undoers : NoUndoAnswer(u)
    \/ ApiRestarts
    \/ DestinationRestarts

Next ==
    \/ \E w \in Pushers : PusherStep(w)
    \/ \E u \in Undoers : UndoerStep(u)
    \/ DestinationStep
    \/ RequestStep
    \/ FaultStep

Spec == Init /\ [][Next]_vars
=============================================================================
