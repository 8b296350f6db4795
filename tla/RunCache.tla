------------------------------ MODULE RunCache ------------------------------
(***************************************************************************)
(* What a person is shown of one run: services/api jobs.py (one background *)
(* job per run and the result it leaves in memory), the stored snapshot    *)
(* and its fingerprint (main.py _fingerprint, _ensure_processing, get_run) *)
(* and the handlers that change what the answer depends on (decide,        *)
(* approve_schema, deliver, rollback).                                     *)
(*                                                                         *)
(* Handlers run in threads of a pool, the job in a thread of its own.  The *)
(* lock of Jobs is held for one access at a time, each SQLite statement    *)
(* commits by itself, so handlers and jobs interleave at every step.       *)
(*                                                                         *)
(* The pipeline is a function of the schema and the decisions it has read, *)
(* so a result is given as these two: its basis.  The deliveries are given *)
(* as the number of their rows, which only grows.                          *)
(***************************************************************************)
EXTENDS Integers

CONSTANTS
    Clients,        \* threads of the pool
    Workers,        \* threads of the background job
    NoThread,       \* in place of the job's thread when there was none
    Cases,          \* questions of the run that a person may answer
    Versions        \* versions of the schema that a person may approve

ASSUME NoThreadAssumption == NoThread \notin Workers
ASSUME VersionsAssumption == Versions \subseteq Nat \ {0}

VARIABLES
    \* The database.
    approved,       \* the approved schema version, 0 when there is none
    schema,         \* the version whose body is in runs.schema_json
    decisions,      \* cases with a row in table decisions
    rows,           \* number of rows in table deliveries
    paused,         \* runs.delivery_paused
    autoSend,       \* runs.auto_send
    snapshot,       \* the run's row in table snapshots
    \* Jobs, in memory.
    cached,         \* _results
    current,        \* _threads
    failed,         \* _progress.failed
    \* Threads.
    job,            \* each thread of the background job: where it is, and what
                    \* its replay has read
    call            \* each thread of the pool: where it is, and its locals

storedVars == <<approved, schema, decisions, rows, paused, autoSend, snapshot>>
jobVars == <<cached, current, failed, job>>
vars == <<approved, schema, decisions, rows, paused, autoSend, snapshot,
          cached, current, failed, job, call>>

\* A result of replay, a payload of get_run, a fingerprint.
Results == [schema : Versions \union {0}, decisions : SUBSET Cases]
NoResult == [schema |-> 0, decisions |-> {}]
Views == [basis : Results, decided : SUBSET Cases, rows : Nat, autoSend : BOOLEAN]
NoView == [basis |-> NoResult, decided |-> {}, rows |-> 0, autoSend |-> FALSE]
Fingerprints ==
    [approved : Versions \union {0}, decisions : SUBSET Cases, rows : Nat,
     paused : BOOLEAN]
NoFingerprint == [approved |-> 0, decisions |-> {}, rows |-> 0, paused |-> FALSE]
NoSnapshot == [fingerprint |-> NoFingerprint, view |-> NoView]

Idle == [kind |-> "none"]
Polls == [kind : {"poll"}, wait : BOOLEAN]
Decides == [kind : {"decide"}, case : Cases]
Approvals == [kind : {"approve"}, version : Versions]
Requests ==
    {Idle} \union Polls \union Decides \union Approvals
           \union [kind : {"deliver", "rollback"}]

ClientSteps ==
    {"idle", "look", "ensure", "start", "register", "launch", "wait", "join",
     "collect", "progress", "failure", "build", "save", "record", "schema",
     "destination", "push", "pause", "invalidate", "clear"}
WorkerSteps == {"free", "registered", "schema", "decisions", "computed", "sent"}

\* The request a handler serves; the fingerprint, the result and the payload of
\* its get_run; the job's thread it starts or waits for.
Calls ==
    [at : ClientSteps, op : Requests, fingerprint : Fingerprints, have : Results,
     view : Views, thread : Workers \union {NoThread}]
Returned ==
    [at |-> "idle", op |-> Idle, fingerprint |-> NoFingerprint, have |-> NoResult,
     view |-> NoView, thread |-> NoThread]
Jobs == [at : WorkerSteps, basis : Results]
Ended == [at |-> "free", basis |-> NoResult]

TypeOK ==
    /\ approved \in Versions \union {0}
    /\ schema \in Versions \union {0}
    /\ decisions \subseteq Cases
    /\ rows \in Nat
    /\ paused \in BOOLEAN
    /\ autoSend \in BOOLEAN
    /\ snapshot \in [fingerprint : Fingerprints, view : Views]
    /\ cached \in Results
    /\ current \in Workers \union {NoThread}
    /\ failed \in BOOLEAN
    /\ job \in [Workers -> Jobs]
    /\ call \in [Clients -> Calls]

\* The API has just started; the run's files are uploaded and a version of the
\* schema may have been approved before.
Init ==
    /\ approved \in Versions \union {0}
    /\ schema = approved
    /\ decisions = {}
    /\ rows = 0
    /\ paused = FALSE
    /\ autoSend = FALSE
    /\ snapshot = NoSnapshot
    /\ cached = NoResult
    /\ current = NoThread
    /\ failed = FALSE
    /\ job = [w \in Workers |-> Ended]
    /\ call = [c \in Clients |-> Returned]

\* A handler is called, goes from one place to another, returns.
Begin(c, request, to) ==
    /\ call[c].at = "idle"
    /\ call' = [call EXCEPT ![c].at = to, ![c].op = request]
Goto(c, from, to) ==
    /\ call[c].at = from
    /\ call' = [call EXCEPT ![c] = IF to = "idle" THEN Returned ELSE [@ EXCEPT !.at = to]]

-----------------------------------------------------------------------------
(***************************************************************************)
(* Jobs.start and Jobs.wait.                                               *)
(***************************************************************************)

\* A thread is alive from its start to its end, not from its registration.
Alive(w) == job[w].at \notin {"free", "registered"}
Running == current # NoThread /\ Alive(current)

\* A thread object nobody holds any more may be used for a new thread.
Joining(w) == {c \in Clients : call[c].at = "join" /\ call[c].thread = w}
Unused(w) == job[w].at = "free" /\ Joining(w) = {}

\* Where a handler goes on when start or wait has returned.
AfterStart(request) ==
    CASE request.kind = "poll" -> IF request.wait THEN "wait" ELSE "progress"
      [] request.kind = "decide" -> "wait"
      [] OTHER -> "idle"
AfterWait(request) ==
    CASE request.kind = "poll" -> "collect"
      [] request.kind = "decide" -> IF request.case \in decisions THEN "idle" ELSE "record"
      [] OTHER -> "destination"

StartLooks(c) ==
    /\ Goto(c, "start", IF Running THEN AfterStart(call[c].op) ELSE "register")
    /\ UNCHANGED <<storedVars, jobVars>>

StartRegisters(c, w) ==
    /\ Unused(w)
    /\ call[c].at = "register"
    /\ call' = [call EXCEPT ![c].at = "launch", ![c].thread = w]
    /\ job' = [job EXCEPT ![w].at = "registered"]
    /\ current' = w
    /\ failed' = FALSE
    /\ UNCHANGED <<storedVars, cached>>

StartLaunches(c) ==
    /\ Goto(c, "launch", AfterStart(call[c].op))
    /\ job' = [job EXCEPT ![call[c].thread].at = "schema"]
    /\ UNCHANGED <<storedVars, cached, current, failed>>

WaitLooks(c) ==
    /\ IF current = NoThread
       THEN Goto(c, "wait", AfterWait(call[c].op))
       ELSE /\ call[c].at = "wait"
            /\ call' = [call EXCEPT ![c].at = "join", ![c].thread = current]
    /\ UNCHANGED <<storedVars, jobVars>>

Joins(c) ==
    /\ Goto(c, "join", AfterWait(call[c].op))
    /\ job[call[c].thread].at = "free"
    /\ UNCHANGED <<storedVars, jobVars>>

\* join with a timeout returns as if the thread had ended.
WaitTimesOut(c) ==
    /\ Goto(c, "join", AfterWait(call[c].op))
    /\ Alive(call[c].thread)
    /\ UNCHANGED <<storedVars, jobVars>>

\* A thread that is not started yet cannot be joined: RuntimeError.
JoinRaises(c) ==
    /\ Goto(c, "join", "idle")
    /\ job[call[c].thread].at = "registered"
    /\ UNCHANGED <<storedVars, jobVars>>

-----------------------------------------------------------------------------
(***************************************************************************)
(* get_run.                                                                *)
(***************************************************************************)

\* Mutant: answers are left out of the fingerprint.
Fingerprint_WithoutDecisions ==
    [approved |-> approved, decisions |-> {}, rows |-> rows, paused |-> paused]

\* What the stored view is filed under.
Fingerprint ==
    [approved |-> approved, decisions |-> decisions, rows |-> rows, paused |-> paused]

\* Without an approved schema nothing is read or changed.
BeginPoll(c, wait) ==
    /\ approved # 0
    /\ call[c].at = "idle"
    /\ call' = [call EXCEPT ![c].at = "look",
                            ![c].op = [kind |-> "poll", wait |-> wait],
                            ![c].fingerprint = Fingerprint]
    /\ UNCHANGED <<storedVars, jobVars>>

IsStored(print) == snapshot # NoSnapshot /\ snapshot.fingerprint = print

PollLooks(c) ==
    /\ Goto(c, "look", IF ~Running /\ IsStored(call[c].fingerprint) THEN "idle" ELSE "ensure")
    /\ UNCHANGED <<storedVars, jobVars>>

\* _ensure_processing, and the second look at the result when the poll waited.
TakeResult(c, from, otherwise) ==
    /\ call[c].at = from
    /\ call' = [call EXCEPT ![c].at = IF cached # NoResult THEN "build" ELSE otherwise,
                            ![c].have = cached]
    /\ UNCHANGED <<storedVars, jobVars>>

PollEnsures(c) == TakeResult(c, "ensure", "start")
PollCollects(c) == TakeResult(c, "collect", "progress")

\* Nothing to show yet: the answer tells how the job is getting on.
PollTellsProgress(c) ==
    /\ Goto(c, "progress", IF failed THEN "failure" ELSE "idle")
    /\ UNCHANGED <<storedVars, jobVars>>

\* ... and here that it has failed.
PollTellsFailure(c) ==
    /\ Goto(c, "failure", "idle")
    /\ UNCHANGED <<storedVars, jobVars>>

\* The payload: the result, and what the tables say by now.
PollBuilds(c) ==
    /\ call[c].at = "build"
    /\ call' = [call EXCEPT
         ![c].at = "save",
         ![c].view = [basis |-> call[c].have, decided |-> decisions, rows |-> rows,
                      autoSend |-> autoSend]]
    /\ UNCHANGED <<storedVars, jobVars>>

PollSaves(c) ==
    /\ Goto(c, "save", "idle")
    /\ snapshot' = [fingerprint |-> call[c].fingerprint, view |-> call[c].view]
    /\ UNCHANGED <<approved, schema, decisions, rows, paused, autoSend, jobVars>>

-----------------------------------------------------------------------------
(***************************************************************************)
(* The handlers that change what the view depends on.                      *)
(***************************************************************************)

\* decide waits for the job, then looks the case up in what it found, or in a
\* replay of its own.
BeginDecide(c, case) ==
    /\ schema # 0
    /\ case \notin decisions
    /\ \A d \in Clients : call[d].op.kind = "decide" => call[d].op.case # case
    /\ Begin(c, [kind |-> "decide", case |-> case], "wait")
    /\ UNCHANGED <<storedVars, jobVars>>

RecordDecision(c) ==
    /\ Goto(c, "record", "invalidate")
    /\ decisions' = decisions \union {call[c].op.case}
    /\ UNCHANGED <<approved, schema, rows, paused, autoSend, snapshot, jobVars>>

\* approve_schema: the version, then the body the replay will read.
BeginApprove(c, version) ==
    /\ Begin(c, [kind |-> "approve", version |-> version], "schema")
    /\ approved' = version
    /\ UNCHANGED <<schema, decisions, rows, paused, autoSend, snapshot, jobVars>>

\* Mutant: the run keeps the schema it was first given.
SetSchema_FirstOnly(c) ==
    /\ Goto(c, "schema", "destination")
    /\ schema' = IF schema = 0 THEN call[c].op.version ELSE schema
    /\ UNCHANGED <<approved, decisions, rows, paused, autoSend, snapshot, jobVars>>

SetSchema(c) ==
    /\ Goto(c, "schema", "destination")
    /\ schema' = call[c].op.version
    /\ UNCHANGED <<approved, decisions, rows, paused, autoSend, snapshot, jobVars>>

\* deliver: sending is resumed, and kept on when asked to.
BeginDeliver(c, keepSending) ==
    /\ approved # 0
    /\ Begin(c, [kind |-> "deliver"], "wait")
    /\ paused' = FALSE
    /\ autoSend' = (autoSend \/ keepSending)
    /\ UNCHANGED <<approved, schema, decisions, rows, snapshot, jobVars>>

\* approve_schema and deliver register the schema with the destination.
RegisterSchema(c) ==
    /\ Goto(c, "destination", IF call[c].op.kind = "deliver" THEN "push" ELSE "invalidate")
    /\ UNCHANGED <<storedVars, jobVars>>

\* The destination cannot be reached: the handler raises and does nothing more.
RegisterFails(c) ==
    /\ Goto(c, "destination", "idle")
    /\ UNCHANGED <<storedVars, jobVars>>

Push(c, sent) ==
    /\ Goto(c, "push", "invalidate")
    /\ rows' = rows + sent
    /\ UNCHANGED <<approved, schema, decisions, paused, autoSend, snapshot, jobVars>>

\* Mutant: rollback deletes the rows of what it undoes.
BeginRollback_Deletes(c, undone) ==
    /\ Begin(c, [kind |-> "rollback"], "pause")
    /\ rows' = rows - undone
    /\ UNCHANGED <<approved, schema, decisions, paused, autoSend, snapshot, jobVars>>

\* rollback writes its rows, then pauses sending.
BeginRollback(c, undone) ==
    /\ Begin(c, [kind |-> "rollback"], "pause")
    /\ rows' = rows + undone
    /\ UNCHANGED <<approved, schema, decisions, paused, autoSend, snapshot, jobVars>>

Pause(c) ==
    /\ Goto(c, "pause", "invalidate")
    /\ paused' = TRUE
    /\ UNCHANGED <<approved, schema, decisions, rows, autoSend, snapshot, jobVars>>

\* Mutant: the result in memory stays until the next one.
Invalidate_KeepsResult(c) ==
    /\ Goto(c, "invalidate", "clear")
    /\ UNCHANGED <<storedVars, jobVars>>

\* How all four end; decide and approve_schema then start the job.
Invalidate(c) ==
    /\ Goto(c, "invalidate", "clear")
    /\ cached' = NoResult
    /\ UNCHANGED <<storedVars, current, failed, job>>

ClearSnapshot(c) ==
    /\ Goto(c, "clear", IF call[c].op.kind \in {"decide", "approve"} THEN "start" ELSE "idle")
    /\ snapshot' = NoSnapshot
    /\ UNCHANGED <<approved, schema, decisions, rows, paused, autoSend, jobVars>>

-----------------------------------------------------------------------------
(***************************************************************************)
(* The background job: _process_run.  replay reads the schema with the     *)
(* run, and the decisions when it has read the files.                      *)
(***************************************************************************)
WorkerReadsSchema(w) ==
    /\ job[w].at = "schema"
    /\ schema # 0
    /\ job' = [job EXCEPT ![w].at = "decisions", ![w].basis.schema = schema]
    /\ UNCHANGED <<storedVars, cached, current, failed, call>>

WorkerReadsDecisions(w) ==
    /\ job[w].at = "decisions"
    /\ job' = [job EXCEPT ![w].at = "computed", ![w].basis.decisions = decisions]
    /\ UNCHANGED <<storedVars, cached, current, failed, call>>

\* deliver_ready, when sending is on and something is ready.
WorkerSends(w) ==
    /\ job[w].at = "computed"
    /\ autoSend
    /\ ~paused
    /\ job' = [job EXCEPT ![w].at = "sent"]
    /\ rows' = rows + 1
    /\ UNCHANGED <<approved, schema, decisions, paused, autoSend, snapshot,
                   cached, current, failed, call>>

\* Mutant: wait joins the thread with the lock of Jobs in its hand.
WorkerStores_NeedsLock(w) ==
    /\ job[w].at \in {"computed", "sent"}
    /\ Joining(w) = {}
    /\ job' = [job EXCEPT ![w] = Ended]
    /\ cached' = job[w].basis
    /\ UNCHANGED <<storedVars, current, failed, call>>

\* The result is kept, whatever was invalidated in the meantime.
WorkerStores(w) ==
    /\ job[w].at \in {"computed", "sent"}
    /\ job' = [job EXCEPT ![w] = Ended]
    /\ cached' = job[w].basis
    /\ UNCHANGED <<storedVars, current, failed, call>>

WorkerFails(w) ==
    /\ Alive(w)
    /\ job' = [job EXCEPT ![w] = Ended]
    /\ failed' = TRUE
    /\ UNCHANGED <<storedVars, cached, current, call>>

\* The API stops and starts: the database is all it has left.
ApiRestarts ==
    /\ cached' = NoResult
    /\ current' = NoThread
    /\ failed' = FALSE
    /\ job' = [w \in Workers |-> Ended]
    /\ call' = [c \in Clients |-> Returned]
    /\ UNCHANGED storedVars

-----------------------------------------------------------------------------
\* What a handler under way does by itself.
ClientStep(c) ==
    \/ StartLooks(c) \/ StartLaunches(c)
    \/ \E w \in Workers : StartRegisters(c, w)
    \/ WaitLooks(c) \/ Joins(c) \/ JoinRaises(c)
    \/ PollLooks(c) \/ PollEnsures(c) \/ PollCollects(c)
    \/ PollTellsProgress(c) \/ PollTellsFailure(c)
    \/ PollBuilds(c) \/ PollSaves(c)
    \/ RecordDecision(c) \/ SetSchema(c) \/ RegisterSchema(c)
    \/ \E sent \in {0, 1} : Push(c, sent)
    \/ Pause(c) \/ Invalidate(c) \/ ClearSnapshot(c)

WorkerStep(w) ==
    \/ WorkerReadsSchema(w) \/ WorkerReadsDecisions(w)
    \/ WorkerSends(w) \/ WorkerStores(w)
    \/ schema = 0 /\ job[w].at = "schema" /\ WorkerFails(w)

Ask(c) == \E wait \in BOOLEAN : BeginPoll(c, wait)

Change(c) ==
    \/ \E case \in Cases : BeginDecide(c, case)
    \/ \E version \in Versions : BeginApprove(c, version)
    \/ \E keepSending \in BOOLEAN : BeginDeliver(c, keepSending)
    \/ \E undone \in {0, 1} : BeginRollback(c, undone)

FaultStep ==
    \/ \E c \in Clients : WaitTimesOut(c) \/ RegisterFails(c)
    \/ \E w \in Workers : WorkerFails(w)
    \/ ApiRestarts

Next ==
    \/ \E c \in Clients : ClientStep(c) \/ Ask(c) \/ Change(c)
    \/ \E w \in Workers : WorkerStep(w)
    \/ FaultStep

Spec == Init /\ [][Next]_vars
=============================================================================
