--------------------------- MODULE RunCacheProofs ---------------------------
(***************************************************************************)
(* Proofs about RunCache, for every set of clients, threads, questions and *)
(* schema versions, and any number of requests, faults and restarts.       *)
(***************************************************************************)
EXTENDS RunCacheProperties, TLAPS

(***************************************************************************)
(* The type invariant, with what a handler knows of its own request where  *)
(* it uses a field of it.                                                  *)
(***************************************************************************)
RequestShape ==
    \A c \in Clients :
        /\ call[c].at = "record" => call[c].op.kind = "decide"
        /\ call[c].at = "schema" => call[c].op.kind = "approve"

TypeInv == TypeOK /\ RequestShape

\* A request of one kind is a record of one shape.
LEMMA RequestOfKind ==
    ASSUME NEW request \in Requests
    PROVE  /\ request.kind = "decide" => request.case \in Cases
           /\ request.kind = "approve" => request.version \in Versions
BY DEF Requests, Idle, Polls, Decides, Approvals

LEMMA ReturnedType == Returned \in Calls
BY DEF Returned, Calls, ClientSteps, Requests, Idle, NoFingerprint, Fingerprints,
       NoResult, Results, NoView, Views

\* Wherever start and wait return to is a place, and "record" is one only for
\* a decision.
LEMMA AfterStartPlace ==
    ASSUME NEW request
    PROVE  AfterStart(request) \in {"wait", "progress", "idle"}
BY DEF AfterStart

LEMMA AfterWaitPlace ==
    ASSUME NEW request
    PROVE  /\ AfterWait(request) \in {"collect", "idle", "record", "destination"}
           /\ AfterWait(request) = "record" => request.kind = "decide"
BY DEF AfterWait

\* A handler that goes on keeps its locals.
LEMMA GotoType ==
    ASSUME TypeInv, NEW c \in Clients, NEW from, NEW to \in ClientSteps,
           Goto(c, from, to),
           to = "record" => call[c].op.kind = "decide",
           to # "schema"
    PROVE  call' \in [Clients -> Calls] /\ RequestShape'
<1>1. [call[c] EXCEPT !.at = to] \in Calls
  BY DEF TypeInv, TypeOK, Calls
<1>2. call' \in [Clients -> Calls]
  BY <1>1, ReturnedType DEF Goto, TypeInv, TypeOK
<1>3. call'[c] = IF to = "idle" THEN Returned ELSE [call[c] EXCEPT !.at = to]
  BY DEF Goto, TypeInv, TypeOK
<1>4. call'[c].at # "schema" /\ (call'[c].at = "record" => call'[c].op.kind = "decide")
  <2>1. CASE to = "idle"
    BY <1>3, <2>1 DEF Returned
  <2>2. CASE to # "idle"
    BY <1>3, <2>2 DEF TypeInv, TypeOK, Calls
  <2>3. QED BY <2>1, <2>2
<1>5. \A d \in Clients \ {c} : call'[d] = call[d]
  BY DEF Goto, TypeInv, TypeOK
<1>6. QED
  BY <1>2, <1>4, <1>5 DEF TypeInv, RequestShape

\* A handler that is called holds its request and nothing else.
LEMMA BeginType ==
    ASSUME TypeInv, NEW c \in Clients, NEW request \in Requests, NEW to \in ClientSteps,
           Begin(c, request, to),
           to # "record",
           to = "schema" => request.kind = "approve"
    PROVE  call' \in [Clients -> Calls] /\ RequestShape'
<1>1. call' = [call EXCEPT ![c] = [call[c] EXCEPT !.at = to, !.op = request]]
  BY DEF Begin, TypeInv, TypeOK
<1>2. [call[c] EXCEPT !.at = to, !.op = request] \in Calls
  BY DEF TypeInv, TypeOK, Calls
<1>3. call' \in [Clients -> Calls]
  BY <1>1, <1>2 DEF TypeInv, TypeOK
<1>4. call'[c].at = to /\ call'[c].op = request
  BY <1>1 DEF TypeInv, TypeOK, Calls
<1>5. \A d \in Clients \ {c} : call'[d] = call[d]
  BY <1>1 DEF TypeInv, TypeOK
<1>6. QED
  BY <1>3, <1>4, <1>5 DEF TypeInv, RequestShape

-----------------------------------------------------------------------------
LEMMA InitTypeInv == Init => TypeInv
<1>1. SUFFICES ASSUME Init PROVE TypeInv
  OBVIOUS
<1>2. NoResult \in Results /\ NoView \in Views /\ NoFingerprint \in Fingerprints
  BY DEF NoResult, Results, NoView, Views, NoFingerprint, Fingerprints
<1>3. Ended \in Jobs
  BY <1>2 DEF Ended, Jobs, WorkerSteps
<1>4. TypeOK
  BY <1>1, <1>2, <1>3, ReturnedType DEF Init, TypeOK, NoSnapshot
<1>5. RequestShape
  BY <1>1 DEF Init, RequestShape, Returned
<1>6. QED
  BY <1>4, <1>5 DEF TypeInv

\* What the handlers have read is of its type wherever it is put.
LEMMA FingerprintType == TypeInv => Fingerprint \in Fingerprints
BY DEF TypeInv, TypeOK, Fingerprint, Fingerprints

LEMMA ClientTypeStep ==
    ASSUME TypeInv, NEW c \in Clients, ClientStep(c)
    PROVE  TypeInv'
<1>. USE DEF TypeInv
<1>. DEFINE Rest == /\ approved' \in Versions \union {0}
                    /\ schema' \in Versions \union {0}
                    /\ decisions' \subseteq Cases
                    /\ rows' \in Nat
                    /\ paused' \in BOOLEAN
                    /\ autoSend' \in BOOLEAN
                    /\ snapshot' \in [fingerprint : Fingerprints, view : Views]
                    /\ cached' \in Results
                    /\ current' \in Workers \union {NoThread}
                    /\ failed' \in BOOLEAN
                    /\ job' \in [Workers -> Jobs]
<1>. SUFFICES Rest /\ call' \in [Clients -> Calls] /\ RequestShape'
  BY DEF TypeOK
<1>0. UNCHANGED <<storedVars, jobVars>> => Rest
  BY DEF TypeOK, storedVars, jobVars
<1>. HIDE DEF Rest
<1>1. CASE StartLooks(c)
  <2>1. \A to \in {"wait", "progress", "idle", "register"} : to \in ClientSteps
    BY DEF ClientSteps
  <2>2. QED
    BY <1>0, <1>1, <2>1, AfterStartPlace, GotoType DEF StartLooks
<1>2. CASE StartLaunches(c)
  <2>1. AfterStart(call[c].op) \in ClientSteps
    BY AfterStartPlace DEF ClientSteps
  <2>2. call' \in [Clients -> Calls] /\ RequestShape'
    BY <1>2, <2>1, AfterStartPlace, GotoType DEF StartLaunches
  <2>3. job' \in [Workers -> Jobs]
    BY <1>2 DEF StartLaunches, TypeOK, Jobs, WorkerSteps
  <2>4. QED
    BY <1>2, <2>2, <2>3 DEF StartLaunches, TypeOK, Rest, storedVars
<1>3. ASSUME NEW w \in Workers, StartRegisters(c, w)
      PROVE  Rest /\ call' \in [Clients -> Calls] /\ RequestShape'
  <2>0. [call[c] EXCEPT !.at = "launch", !.thread = w] \in Calls
    BY DEF TypeOK, Calls, ClientSteps
  <2>1. call' \in [Clients -> Calls]
    <3>1. call' = [call EXCEPT ![c] = [call[c] EXCEPT !.at = "launch", !.thread = w]]
      BY <1>3 DEF StartRegisters, TypeOK
    <3>2. QED
      BY <2>0, <3>1 DEF TypeOK
  <2>2. RequestShape'
    BY <1>3 DEF StartRegisters, TypeOK, Calls, RequestShape
  <2>3. job' \in [Workers -> Jobs]
    BY <1>3 DEF StartRegisters, TypeOK, Jobs, WorkerSteps
  <2>4. QED
    BY <1>3, <2>1, <2>2, <2>3 DEF StartRegisters, TypeOK, Rest, storedVars
<1>4. CASE WaitLooks(c)
  <2>1. AfterWait(call[c].op) \in ClientSteps /\ AfterWait(call[c].op) # "schema"
    BY AfterWaitPlace DEF ClientSteps
  <2>2. CASE current = NoThread
    BY <1>0, <1>4, <2>1, <2>2, AfterWaitPlace, GotoType DEF WaitLooks
  <2>3. CASE current # NoThread
    <3>1. call' \in [Clients -> Calls]
      BY <1>4, <2>3 DEF WaitLooks, TypeOK, Calls, ClientSteps
    <3>2. RequestShape'
      BY <1>4, <2>3 DEF WaitLooks, TypeOK, Calls, RequestShape
    <3>3. QED
      BY <1>0, <1>4, <3>1, <3>2 DEF WaitLooks
  <2>4. QED
    BY <2>2, <2>3
<1>5. CASE Joins(c)
  <2>1. AfterWait(call[c].op) \in ClientSteps /\ AfterWait(call[c].op) # "schema"
    BY AfterWaitPlace DEF ClientSteps
  <2>2. QED
    BY <1>0, <1>5, <2>1, AfterWaitPlace, GotoType DEF Joins
<1>6. CASE JoinRaises(c) \/ PollTellsFailure(c)
  <2>1. "idle" \in ClientSteps
    BY DEF ClientSteps
  <2>2. QED
    BY <1>0, <1>6, <2>1, GotoType DEF JoinRaises, PollTellsFailure
<1>7. CASE PollLooks(c) \/ PollTellsProgress(c)
  <2>1. \A to \in {"idle", "ensure", "failure"} : to \in ClientSteps
    BY DEF ClientSteps
  <2>2. QED
    BY <1>0, <1>7, <2>1, GotoType DEF PollLooks, PollTellsProgress
<1>8. CASE PollEnsures(c) \/ PollCollects(c)
  <2>1. call' \in [Clients -> Calls]
    BY <1>8 DEF PollEnsures, PollCollects, TakeResult, TypeOK, Calls, ClientSteps
  <2>2. RequestShape'
    BY <1>8 DEF PollEnsures, PollCollects, TakeResult, TypeOK, Calls, RequestShape
  <2>3. QED
    BY <1>0, <1>8, <2>1, <2>2 DEF PollEnsures, PollCollects, TakeResult
<1>9. CASE PollBuilds(c)
  <2>. DEFINE v == [basis |-> call[c].have, decided |-> decisions, rows |-> rows,
                    autoSend |-> autoSend]
  <2>1. v \in Views
    BY DEF TypeOK, Calls, Views
  <2>. HIDE DEF v
  <2>2. call' \in [Clients -> Calls]
    <3>1. [call[c] EXCEPT !.at = "save", !.view = v] \in Calls
      BY <2>1 DEF TypeOK, Calls, ClientSteps
    <3>2. call' = [call EXCEPT ![c] = [call[c] EXCEPT !.at = "save", !.view = v]]
      BY <1>9 DEF PollBuilds, TypeOK, v
    <3>3. QED
      BY <3>1, <3>2 DEF TypeOK
  <2>3. RequestShape'
    BY <1>9 DEF PollBuilds, TypeOK, Calls, RequestShape
  <2>4. QED
    BY <1>0, <1>9, <2>2, <2>3 DEF PollBuilds
<1>10. CASE PollSaves(c)
  <2>1. "idle" \in ClientSteps
    BY DEF ClientSteps
  <2>2. call' \in [Clients -> Calls] /\ RequestShape'
    BY <1>10, <2>1, GotoType DEF PollSaves
  <2>3. snapshot' \in [fingerprint : Fingerprints, view : Views]
    BY <1>10 DEF PollSaves, TypeOK, Calls
  <2>4. QED
    BY <1>10, <2>2, <2>3 DEF PollSaves, TypeOK, Rest, jobVars
<1>11. CASE RecordDecision(c)
  <2>1. "invalidate" \in ClientSteps
    BY DEF ClientSteps
  <2>2. call' \in [Clients -> Calls] /\ RequestShape'
    BY <1>11, <2>1, GotoType DEF RecordDecision
  <2>3. call[c].op.kind = "decide" /\ call[c].op \in Requests
    BY <1>11 DEF RecordDecision, Goto, RequestShape, TypeOK, Calls
  <2>4. decisions' \subseteq Cases
    BY <1>11, <2>3, RequestOfKind DEF RecordDecision, TypeOK
  <2>5. QED
    BY <1>11, <2>2, <2>4 DEF RecordDecision, TypeOK, Rest, jobVars
<1>12. CASE SetSchema(c)
  <2>1. "destination" \in ClientSteps
    BY DEF ClientSteps
  <2>2. call' \in [Clients -> Calls] /\ RequestShape'
    BY <1>12, <2>1, GotoType DEF SetSchema
  <2>3. call[c].op.kind = "approve" /\ call[c].op \in Requests
    BY <1>12 DEF SetSchema, Goto, RequestShape, TypeOK, Calls
  <2>4. schema' \in Versions
    BY <1>12, <2>3, RequestOfKind DEF SetSchema
  <2>5. QED
    BY <1>12, <2>2, <2>4 DEF SetSchema, TypeOK, Rest, jobVars
<1>13. CASE RegisterSchema(c)
  <2>1. \A to \in {"push", "invalidate"} : to \in ClientSteps
    BY DEF ClientSteps
  <2>2. QED
    BY <1>0, <1>13, <2>1, GotoType DEF RegisterSchema
<1>14. ASSUME NEW sent \in {0, 1}, Push(c, sent)
       PROVE  Rest /\ call' \in [Clients -> Calls] /\ RequestShape'
  <2>1. "invalidate" \in ClientSteps
    BY DEF ClientSteps
  <2>2. call' \in [Clients -> Calls] /\ RequestShape'
    BY <1>14, <2>1, GotoType DEF Push
  <2>3. QED
    BY <1>14, <2>2 DEF Push, TypeOK, Rest, jobVars
<1>15. CASE Pause(c) \/ Invalidate(c)
  <2>1. \A to \in {"invalidate", "clear"} : to \in ClientSteps
    BY DEF ClientSteps
  <2>2. call' \in [Clients -> Calls] /\ RequestShape'
    BY <1>15, <2>1, GotoType DEF Pause, Invalidate
  <2>3. NoResult \in Results
    BY DEF NoResult, Results
  <2>4. QED
    BY <1>15, <2>2, <2>3 DEF Pause, Invalidate, TypeOK, Rest, jobVars, storedVars
<1>16. CASE ClearSnapshot(c)
  <2>1. \A to \in {"start", "idle"} : to \in ClientSteps
    BY DEF ClientSteps
  <2>2. call' \in [Clients -> Calls] /\ RequestShape'
    BY <1>16, <2>1, GotoType DEF ClearSnapshot
  <2>3. NoSnapshot \in [fingerprint : Fingerprints, view : Views]
    BY DEF NoSnapshot, NoFingerprint, Fingerprints, NoView, Views, NoResult, Results
  <2>4. QED
    BY <1>16, <2>2, <2>3 DEF ClearSnapshot, TypeOK, Rest, jobVars
<1>17. QED
  BY <1>1, <1>2, <1>3, <1>4, <1>5, <1>6, <1>7, <1>8, <1>9, <1>10, <1>11, <1>12,
     <1>13, <1>14, <1>15, <1>16 DEF ClientStep

LEMMA WorkerTypeStep ==
    ASSUME TypeInv, NEW w \in Workers, WorkerStep(w) \/ WorkerFails(w)
    PROVE  TypeInv'
<1>. USE DEF TypeInv
<1>1. Ended \in Jobs
  BY DEF Ended, Jobs, WorkerSteps, NoResult, Results
<1>2. job[w].basis \in Results
  BY DEF TypeOK, Jobs
<1>3. CASE WorkerReadsSchema(w)
  <2>1. [job[w] EXCEPT !.at = "decisions", !.basis = [job[w].basis EXCEPT !.schema = schema]]
            \in Jobs
    BY DEF TypeOK, Jobs, WorkerSteps, Results
  <2>2. job' = [job EXCEPT ![w] = [job[w] EXCEPT !.at = "decisions",
                                   !.basis = [job[w].basis EXCEPT !.schema = schema]]]
    BY <1>3 DEF WorkerReadsSchema, TypeOK
  <2>3. job' \in [Workers -> Jobs]
    BY <2>1, <2>2 DEF TypeOK
  <2>4. QED
    BY <1>3, <2>3 DEF WorkerReadsSchema, TypeOK, RequestShape, storedVars
<1>4. CASE WorkerReadsDecisions(w)
  <2>1. [job[w] EXCEPT !.at = "computed",
                       !.basis = [job[w].basis EXCEPT !.decisions = decisions]] \in Jobs
    BY DEF TypeOK, Jobs, WorkerSteps, Results
  <2>2. job' = [job EXCEPT ![w] = [job[w] EXCEPT !.at = "computed",
                            !.basis = [job[w].basis EXCEPT !.decisions = decisions]]]
    BY <1>4 DEF WorkerReadsDecisions, TypeOK
  <2>3. job' \in [Workers -> Jobs]
    BY <2>1, <2>2 DEF TypeOK
  <2>4. QED
    BY <1>4, <2>3 DEF WorkerReadsDecisions, TypeOK, RequestShape, storedVars
<1>5. CASE WorkerSends(w)
  BY <1>5 DEF WorkerSends, TypeOK, RequestShape, Jobs, WorkerSteps
<1>6. CASE WorkerStores(w)
  BY <1>1, <1>2, <1>6 DEF WorkerStores, TypeOK, RequestShape, storedVars
<1>7. CASE WorkerFails(w)
  BY <1>1, <1>7 DEF WorkerFails, TypeOK, RequestShape, storedVars
<1>8. QED
  BY <1>3, <1>4, <1>5, <1>6, <1>7 DEF WorkerStep

LEMMA RequestTypeStep ==
    ASSUME TypeInv, NEW c \in Clients, Ask(c) \/ Change(c)
    PROVE  TypeInv'
<1>. USE DEF TypeInv
<1>0. \A to \in {"look", "wait", "schema", "pause"} : to \in ClientSteps
  BY DEF ClientSteps
<1>1. ASSUME NEW wait \in BOOLEAN, BeginPoll(c, wait) PROVE TypeInv'
  <2>. DEFINE request == [kind |-> "poll", wait |-> wait]
  <2>1. request \in Requests
    BY DEF Requests, Polls
  <2>. HIDE DEF request
  <2>2. [call[c] EXCEPT !.at = "look", !.op = request, !.fingerprint = Fingerprint] \in Calls
    BY <1>0, <2>1, FingerprintType DEF TypeOK, Calls
  <2>3. call' = [call EXCEPT ![c] = [call[c] EXCEPT !.at = "look", !.op = request,
                                                   !.fingerprint = Fingerprint]]
    BY <1>1 DEF BeginPoll, TypeOK, request
  <2>4. call' \in [Clients -> Calls]
    BY <2>2, <2>3 DEF TypeOK
  <2>5. call'[c].at = "look" /\ \A d \in Clients \ {c} : call'[d] = call[d]
    BY <2>3 DEF TypeOK, Calls
  <2>6. RequestShape'
    BY <2>5 DEF RequestShape
  <2>7. QED
    BY <1>1, <2>4, <2>6 DEF BeginPoll, TypeOK, storedVars, jobVars
<1>2. ASSUME NEW case \in Cases, BeginDecide(c, case) PROVE TypeInv'
  <2>1. [kind |-> "decide", case |-> case] \in Requests
    BY DEF Requests, Decides
  <2>2. call' \in [Clients -> Calls] /\ RequestShape'
    BY <1>0, <1>2, <2>1, BeginType DEF BeginDecide
  <2>3. QED
    BY <1>2, <2>2 DEF BeginDecide, TypeOK, storedVars, jobVars
<1>3. ASSUME NEW version \in Versions, BeginApprove(c, version) PROVE TypeInv'
  <2>1. [kind |-> "approve", version |-> version] \in Requests
    BY DEF Requests, Approvals
  <2>2. call' \in [Clients -> Calls] /\ RequestShape'
    BY <1>0, <1>3, <2>1, BeginType DEF BeginApprove
  <2>3. QED
    BY <1>3, <2>2 DEF BeginApprove, TypeOK, jobVars
<1>4. ASSUME NEW keepSending \in BOOLEAN, BeginDeliver(c, keepSending) PROVE TypeInv'
  <2>1. [kind |-> "deliver"] \in Requests
    BY DEF Requests
  <2>2. call' \in [Clients -> Calls] /\ RequestShape'
    BY <1>0, <1>4, <2>1, BeginType DEF BeginDeliver
  <2>3. (autoSend \/ keepSending) \in BOOLEAN
    OBVIOUS
  <2>4. QED
    BY <1>4, <2>2, <2>3 DEF BeginDeliver, TypeOK, jobVars
<1>5. ASSUME NEW undone \in {0, 1}, BeginRollback(c, undone) PROVE TypeInv'
  <2>1. [kind |-> "rollback"] \in Requests
    BY DEF Requests
  <2>2. call' \in [Clients -> Calls] /\ RequestShape'
    BY <1>0, <1>5, <2>1, BeginType DEF BeginRollback
  <2>3. QED
    BY <1>5, <2>2 DEF BeginRollback, TypeOK, jobVars
<1>6. QED
  BY <1>1, <1>2, <1>3, <1>4, <1>5 DEF Ask, Change

LEMMA FaultTypeStep ==
    ASSUME TypeInv, FaultStep
    PROVE  TypeInv'
<1>. USE DEF TypeInv
<1>1. ASSUME NEW c \in Clients, WaitTimesOut(c) PROVE TypeInv'
  <2>1. AfterWait(call[c].op) \in ClientSteps /\ AfterWait(call[c].op) # "schema"
    BY AfterWaitPlace DEF ClientSteps
  <2>2. call' \in [Clients -> Calls] /\ RequestShape'
    BY <1>1, <2>1, AfterWaitPlace, GotoType DEF WaitTimesOut
  <2>3. QED
    BY <1>1, <2>2 DEF WaitTimesOut, TypeOK, storedVars, jobVars
<1>2. ASSUME NEW c \in Clients, RegisterFails(c) PROVE TypeInv'
  <2>1. "idle" \in ClientSteps
    BY DEF ClientSteps
  <2>2. call' \in [Clients -> Calls] /\ RequestShape'
    BY <1>2, <2>1, GotoType DEF RegisterFails
  <2>3. QED
    BY <1>2, <2>2 DEF RegisterFails, TypeOK, storedVars, jobVars
<1>3. CASE ApiRestarts
  <2>1. Ended \in Jobs /\ NoResult \in Results
    BY DEF Ended, Jobs, WorkerSteps, NoResult, Results
  <2>2. RequestShape'
    BY <1>3 DEF ApiRestarts, RequestShape, Returned
  <2>3. QED
    BY <1>3, <2>1, <2>2, ReturnedType DEF ApiRestarts, TypeOK, storedVars
<1>4. QED
  BY <1>1, <1>2, <1>3, WorkerTypeStep DEF FaultStep

LEMMA TypeStep == TypeInv /\ [Next]_vars => TypeInv'
<1>1. SUFFICES ASSUME TypeInv, [Next]_vars PROVE TypeInv'
  OBVIOUS
<1>2. CASE UNCHANGED vars
  BY <1>1, <1>2 DEF TypeInv, TypeOK, RequestShape, vars
<1>3. CASE Next
  BY <1>1, <1>3, ClientTypeStep, RequestTypeStep, WorkerTypeStep, FaultTypeStep DEF Next
<1>4. QED
  BY <1>1, <1>2, <1>3

(***************************************************************************)
(* Every variable of RunCache stays in its type, however many clients and  *)
(* jobs overlap.                                                           *)
(***************************************************************************)
THEOREM TypeCorrect == Spec => []TypeOK
<1>1. TypeInv => TypeOK
  BY DEF TypeInv
<1>2. QED
  BY InitTypeInv, TypeStep, <1>1, PTL DEF Spec

-----------------------------------------------------------------------------
(***************************************************************************)
(* A view that is stored knows at least what its fingerprint names, and    *)
(* the tables only grow.  So when the fingerprint is that of the tables as *)
(* they are, the view knows all of them.                                   *)
(***************************************************************************)
Behind(print) == print.decisions \subseteq decisions /\ print.rows <= rows
Covers(v, print) ==
    /\ print.decisions \subseteq v.decided /\ v.decided \subseteq decisions
    /\ print.rows <= v.rows /\ v.rows <= rows

KnowsInv ==
    /\ \A c \in Clients : Behind(call[c].fingerprint)
    /\ \A c \in Clients :
         call[c].at = "save" => Covers(call[c].view, call[c].fingerprint)
    /\ Covers(snapshot.view, snapshot.fingerprint)

LEMMA InitKnowsInv == Init => KnowsInv
BY DEF Init, KnowsInv, Behind, Covers, Returned, NoFingerprint, NoSnapshot, NoView

\* Most steps: a handler at most forgets its fingerprint or computes it anew.
CallsKept ==
    \A d \in Clients :
        /\ call'[d].fingerprint \in {call[d].fingerprint, NoFingerprint, Fingerprint}
        /\ call'[d].at = "save" => call'[d] = call[d]
TablesGrow == decisions \subseteq decisions' /\ rows <= rows'

LEMMA KnowsKept ==
    ASSUME TypeInv, TypeInv', KnowsInv, TablesGrow, CallsKept,
           snapshot' \in {snapshot, NoSnapshot}
    PROVE  KnowsInv'
<1>1. rows \in Nat /\ rows' \in Nat
  BY DEF TypeInv, TypeOK
<1>2. \A d \in Clients : call[d].fingerprint.rows \in Nat /\ call[d].view.rows \in Nat
  BY DEF TypeInv, TypeOK, Calls, Fingerprints, Views
<1>3. snapshot.fingerprint.rows \in Nat /\ snapshot.view.rows \in Nat
  BY DEF TypeInv, TypeOK, Fingerprints, Views
<1>4. ASSUME NEW d \in Clients PROVE Behind(call[d].fingerprint)'
  <2>1. CASE call'[d].fingerprint = call[d].fingerprint
    BY <1>1, <1>2, <2>1 DEF KnowsInv, Behind, TablesGrow
  <2>2. CASE call'[d].fingerprint = NoFingerprint
    BY <1>1, <2>2 DEF Behind, NoFingerprint
  <2>3. CASE call'[d].fingerprint = Fingerprint
    BY <1>1, <2>3 DEF Behind, Fingerprint, TablesGrow
  <2>4. QED
    BY <2>1, <2>2, <2>3 DEF CallsKept
<1>5. ASSUME NEW d \in Clients, call'[d].at = "save"
      PROVE  Covers(call[d].view, call[d].fingerprint)'
  BY <1>1, <1>2, <1>5 DEF KnowsInv, Covers, TablesGrow, CallsKept
<1>6. Covers(snapshot.view, snapshot.fingerprint)'
  <2>1. CASE snapshot' = snapshot
    BY <1>1, <1>3, <2>1 DEF KnowsInv, Covers, TablesGrow
  <2>2. CASE snapshot' = NoSnapshot
    BY <1>1, <2>2 DEF Covers, NoSnapshot, NoFingerprint, NoView
  <2>3. QED
    BY <2>1, <2>2
<1>7. QED
  BY <1>4, <1>5, <1>6 DEF KnowsInv

LEMMA GotoKept ==
    ASSUME TypeInv, NEW c \in Clients, NEW from, NEW to, Goto(c, from, to), to # "save"
    PROVE  CallsKept
<1>1. call'[c] = IF to = "idle" THEN Returned ELSE [call[c] EXCEPT !.at = to]
  BY DEF Goto, TypeInv, TypeOK
<1>2. \A d \in Clients \ {c} : call'[d] = call[d]
  BY DEF Goto, TypeInv, TypeOK
<1>3. CASE to = "idle"
  BY <1>1, <1>2, <1>3 DEF CallsKept, Returned
<1>4. CASE to # "idle"
  BY <1>1, <1>2, <1>4 DEF CallsKept, TypeInv, TypeOK, Calls
<1>5. QED
  BY <1>3, <1>4

LEMMA BeginKept ==
    ASSUME TypeInv, NEW c \in Clients, NEW request, NEW to, Begin(c, request, to), to # "save"
    PROVE  CallsKept
<1>1. call'[c].fingerprint = call[c].fingerprint /\ call'[c].at = to
  BY DEF Begin, TypeInv, TypeOK, Calls
<1>2. \A d \in Clients \ {c} : call'[d] = call[d]
  BY DEF Begin, TypeInv, TypeOK
<1>3. QED
  BY <1>1, <1>2 DEF CallsKept

LEMMA UnchangedKept ==
    ASSUME TypeInv
    PROVE  /\ UNCHANGED call => CallsKept
           /\ UNCHANGED <<decisions, rows>> => TablesGrow
           /\ UNCHANGED storedVars => TablesGrow /\ UNCHANGED snapshot
BY DEF CallsKept, TablesGrow, TypeInv, TypeOK, storedVars

LEMMA ClientKnowsStep ==
    ASSUME TypeInv, TypeInv', KnowsInv, NEW c \in Clients, ClientStep(c)
    PROVE  KnowsInv'
<1>0. rows \in Nat
  BY DEF TypeInv, TypeOK
<1>1. CASE StartLooks(c)
  BY <1>1, AfterStartPlace, GotoKept, UnchangedKept, KnowsKept DEF StartLooks
<1>2. CASE StartLaunches(c)
  BY <1>2, AfterStartPlace, GotoKept, UnchangedKept, KnowsKept DEF StartLaunches
<1>3. ASSUME NEW w \in Workers, StartRegisters(c, w) PROVE KnowsInv'
  <2>1. CallsKept
    BY <1>3 DEF StartRegisters, CallsKept, TypeInv, TypeOK, Calls
  <2>2. QED
    BY <1>3, <2>1, UnchangedKept, KnowsKept DEF StartRegisters
<1>4. CASE WaitLooks(c)
  <2>1. CASE current = NoThread
    BY <1>4, <2>1, AfterWaitPlace, GotoKept, UnchangedKept, KnowsKept DEF WaitLooks
  <2>2. CASE current # NoThread
    <3>1. CallsKept
      BY <1>4, <2>2 DEF WaitLooks, CallsKept, TypeInv, TypeOK, Calls
    <3>2. QED
      BY <1>4, <3>1, UnchangedKept, KnowsKept DEF WaitLooks
  <2>3. QED
    BY <2>1, <2>2
<1>5. CASE Joins(c)
  BY <1>5, AfterWaitPlace, GotoKept, UnchangedKept, KnowsKept DEF Joins
<1>6. CASE JoinRaises(c) \/ PollTellsFailure(c)
  BY <1>6, GotoKept, UnchangedKept, KnowsKept DEF JoinRaises, PollTellsFailure
<1>7. CASE PollLooks(c) \/ PollTellsProgress(c)
  BY <1>7, GotoKept, UnchangedKept, KnowsKept DEF PollLooks, PollTellsProgress
<1>8. CASE PollEnsures(c) \/ PollCollects(c)
  <2>1. CallsKept
    BY <1>8 DEF PollEnsures, PollCollects, TakeResult, CallsKept, TypeInv, TypeOK, Calls
  <2>2. QED
    BY <1>8, <2>1, UnchangedKept, KnowsKept DEF PollEnsures, PollCollects, TakeResult
<1>9. CASE PollBuilds(c)
  <2>1. UNCHANGED <<decisions, rows, snapshot>>
    BY <1>9 DEF PollBuilds, storedVars
  <2>2. /\ call'[c].fingerprint = call[c].fingerprint
        /\ call'[c].view.decided = decisions
        /\ call'[c].view.rows = rows
    BY <1>9 DEF PollBuilds, TypeInv, TypeOK, Calls
  <2>3. \A d \in Clients \ {c} : call'[d] = call[d]
    BY <1>9 DEF PollBuilds, TypeInv, TypeOK
  <2>4. Covers(call[c].view, call[c].fingerprint)'
    BY <1>0, <2>1, <2>2 DEF KnowsInv, Behind, Covers
  <2>5. \A d \in Clients : Behind(call[d].fingerprint)'
    BY <2>1, <2>2, <2>3 DEF KnowsInv, Behind
  <2>6. \A d \in Clients \ {c} :
            call'[d].at = "save" => Covers(call[d].view, call[d].fingerprint)'
    BY <2>1, <2>3 DEF KnowsInv, Covers
  <2>7. Covers(snapshot.view, snapshot.fingerprint)'
    BY <2>1 DEF KnowsInv, Covers
  <2>8. QED
    BY <2>4, <2>5, <2>6, <2>7 DEF KnowsInv
<1>10. CASE PollSaves(c)
  <2>1. CallsKept /\ UNCHANGED <<decisions, rows>>
    BY <1>10, GotoKept DEF PollSaves
  <2>2. snapshot'.view = call[c].view /\ snapshot'.fingerprint = call[c].fingerprint
    BY <1>10 DEF PollSaves
  <2>3. Covers(call[c].view, call[c].fingerprint)
    BY <1>10 DEF PollSaves, Goto, KnowsInv
  <2>4. Covers(snapshot.view, snapshot.fingerprint)'
    BY <2>1, <2>2, <2>3 DEF Covers
  <2>5. \A d \in Clients : Behind(call[d].fingerprint)'
    BY <1>0, <2>1 DEF KnowsInv, Behind, CallsKept, NoFingerprint, Fingerprint
  <2>6. \A d \in Clients :
            call'[d].at = "save" => Covers(call[d].view, call[d].fingerprint)'
    BY <2>1 DEF KnowsInv, Covers, CallsKept
  <2>7. QED
    BY <2>4, <2>5, <2>6 DEF KnowsInv
<1>11. CASE RecordDecision(c)
  <2>1. TablesGrow
    BY <1>0, <1>11 DEF RecordDecision, TablesGrow
  <2>2. QED
    BY <1>11, <2>1, GotoKept, KnowsKept DEF RecordDecision
<1>12. CASE SetSchema(c)
  BY <1>12, GotoKept, UnchangedKept, KnowsKept DEF SetSchema
<1>13. CASE RegisterSchema(c)
  BY <1>13, GotoKept, UnchangedKept, KnowsKept DEF RegisterSchema
<1>14. ASSUME NEW sent \in {0, 1}, Push(c, sent) PROVE KnowsInv'
  <2>1. TablesGrow
    BY <1>0, <1>14 DEF Push, TablesGrow
  <2>2. QED
    BY <1>14, <2>1, GotoKept, KnowsKept DEF Push
<1>15. CASE Pause(c) \/ Invalidate(c)
  BY <1>15, GotoKept, UnchangedKept, KnowsKept DEF Pause, Invalidate
<1>16. CASE ClearSnapshot(c)
  BY <1>16, GotoKept, UnchangedKept, KnowsKept DEF ClearSnapshot
<1>17. QED
  BY <1>1, <1>2, <1>3, <1>4, <1>5, <1>6, <1>7, <1>8, <1>9, <1>10, <1>11, <1>12,
     <1>13, <1>14, <1>15, <1>16 DEF ClientStep

LEMMA OtherKnowsStep ==
    ASSUME TypeInv, TypeInv', KnowsInv,
           \/ \E c \in Clients : Ask(c) \/ Change(c)
           \/ \E w \in Workers : WorkerStep(w)
           \/ FaultStep
    PROVE  KnowsInv'
<1>0. rows \in Nat
  BY DEF TypeInv, TypeOK
<1>1. ASSUME NEW c \in Clients, NEW wait \in BOOLEAN, BeginPoll(c, wait) PROVE KnowsInv'
  <2>1. call'[c].fingerprint = Fingerprint /\ call'[c].at = "look"
    BY <1>1 DEF BeginPoll, TypeInv, TypeOK, Calls
  <2>2. \A d \in Clients \ {c} : call'[d] = call[d]
    BY <1>1 DEF BeginPoll, TypeInv, TypeOK
  <2>3. CallsKept
    BY <2>1, <2>2 DEF CallsKept
  <2>4. QED
    BY <1>1, <2>3, UnchangedKept, KnowsKept DEF BeginPoll
<1>2. ASSUME NEW c \in Clients, Change(c) PROVE KnowsInv'
  <2>1. ASSUME NEW case \in Cases, BeginDecide(c, case) PROVE KnowsInv'
    BY <2>1, BeginKept, UnchangedKept, KnowsKept DEF BeginDecide
  <2>2. ASSUME NEW version \in Versions, BeginApprove(c, version) PROVE KnowsInv'
    BY <2>2, BeginKept, UnchangedKept, KnowsKept DEF BeginApprove
  <2>3. ASSUME NEW keepSending \in BOOLEAN, BeginDeliver(c, keepSending) PROVE KnowsInv'
    BY <2>3, BeginKept, UnchangedKept, KnowsKept DEF BeginDeliver
  <2>4. ASSUME NEW undone \in {0, 1}, BeginRollback(c, undone) PROVE KnowsInv'
    <3>1. TablesGrow
      BY <1>0, <2>4 DEF BeginRollback, TablesGrow
    <3>2. QED
      BY <2>4, <3>1, BeginKept, KnowsKept DEF BeginRollback
  <2>5. QED
    BY <1>2, <2>1, <2>2, <2>3, <2>4 DEF Change
<1>3. ASSUME NEW w \in Workers, WorkerStep(w) \/ WorkerFails(w) PROVE KnowsInv'
  <2>1. CASE WorkerSends(w)
    <3>1. TablesGrow
      BY <1>0, <2>1 DEF WorkerSends, TablesGrow
    <3>2. QED
      BY <2>1, <3>1, UnchangedKept, KnowsKept DEF WorkerSends
  <2>2. CASE ~WorkerSends(w)
    <3>1. UNCHANGED <<storedVars, call>>
      BY <1>3, <2>2 DEF WorkerStep, WorkerReadsSchema, WorkerReadsDecisions, WorkerStores,
                        WorkerFails
    <3>2. QED
      BY <3>1, UnchangedKept, KnowsKept
  <2>3. QED
    BY <2>1, <2>2
<1>4. ASSUME NEW c \in Clients, WaitTimesOut(c) PROVE KnowsInv'
  BY <1>4, AfterWaitPlace, GotoKept, UnchangedKept, KnowsKept DEF WaitTimesOut
<1>5. ASSUME NEW c \in Clients, RegisterFails(c) PROVE KnowsInv'
  BY <1>5, GotoKept, UnchangedKept, KnowsKept DEF RegisterFails
<1>6. CASE ApiRestarts
  <2>1. CallsKept
    BY <1>6 DEF ApiRestarts, CallsKept, Returned
  <2>2. QED
    BY <1>6, <2>1, UnchangedKept, KnowsKept DEF ApiRestarts
<1>7. QED
  BY <1>1, <1>2, <1>3, <1>4, <1>5, <1>6 DEF Ask, FaultStep

LEMMA KnowsStep == TypeInv /\ TypeInv' /\ KnowsInv /\ [Next]_vars => KnowsInv'
<1>1. SUFFICES ASSUME TypeInv, TypeInv', KnowsInv, [Next]_vars PROVE KnowsInv'
  OBVIOUS
<1>2. CASE UNCHANGED vars
  BY <1>1, <1>2 DEF KnowsInv, Behind, Covers, vars
<1>3. CASE Next
  BY <1>1, <1>3, ClientKnowsStep, OtherKnowsStep DEF Next
<1>4. QED
  BY <1>1, <1>2, <1>3

LEMMA KnownWhenServed == TypeInv /\ KnowsInv => ServedViewKnowsTables
<1>1. SUFFICES ASSUME TypeInv, KnowsInv, IsServed
               PROVE  snapshot.view.decided = decisions /\ snapshot.view.rows = rows
  BY DEF ServedViewKnowsTables, ServedView
<1>2. snapshot.fingerprint.decisions = decisions /\ snapshot.fingerprint.rows = rows
  BY <1>1 DEF IsServed, IsStored, Fingerprint
<1>3. rows \in Nat /\ snapshot.view.rows \in Nat
  BY <1>1 DEF TypeInv, TypeOK, Views
<1>4. Covers(snapshot.view, snapshot.fingerprint)
  BY <1>1 DEF KnowsInv
<1>5. snapshot.view.decided = decisions
  BY <1>2, <1>4 DEF Covers
<1>6. snapshot.view.rows = rows
  BY <1>2, <1>3, <1>4 DEF Covers
<1>7. QED
  BY <1>5, <1>6

(***************************************************************************)
(* A view served from the database never asks a question that has been     *)
(* answered and never misses a delivery, however polls, decisions, pushes, *)
(* rollbacks, jobs and restarts overlap: get_run computes the fingerprint  *)
(* before it reads the tables.                                             *)
(***************************************************************************)
THEOREM ServedViewAlwaysKnowsTables == Spec => []ServedViewKnowsTables
<1>1. Spec => []TypeInv
  BY InitTypeInv, TypeStep, PTL DEF Spec
<1>2. Spec => []KnowsInv
  BY <1>1, InitKnowsInv, KnowsStep, PTL DEF Spec
<1>3. QED
  BY <1>1, <1>2, KnownWhenServed, PTL

-----------------------------------------------------------------------------
(***************************************************************************)
(* What a person who does one thing at a time is shown is current.  The    *)
(* handlers that change what a result is based on see to it that no job    *)
(* has read the old state and is still to store its result: decide waits   *)
(* for the job, approve_schema is not called while one runs; both throw    *)
(* away the result that is there.                                          *)
(***************************************************************************)
NoJob == \A w \in Workers : job[w].at = "free"

\* What is assumed: of every state, that one handler is under way; of every
\* step, that decide does not give up waiting, that no schema is approved while
\* a job runs and that no approval is cut short.
OneAtATime == \A c, d \in Clients : call[c].at # "idle" /\ call[d].at # "idle" => c = d
Uninterrupted ==
    /\ \A c \in Clients : WaitTimesOut(c) => call[c].op.kind # "decide"
    /\ \A c \in Clients : RegisterFails(c) => call[c].op.kind # "approve"
    /\ \A c \in Clients, version \in Versions : BeginApprove(c, version) => NoJob
    /\ ApiRestarts => \A c \in Clients : call[c].at # "schema"

Basis == [schema |-> schema, decisions |-> decisions]

\* A job is the one that wait joins, has been launched unless its handler is
\* about to, and has read what is there to be read.
JobIsCurrent(w) ==
    /\ job[w].at # "free" => w = current
    /\ job[w].at = "registered" =>
          \E c \in Clients : call[c].at = "launch" /\ call[c].thread = w
    /\ job[w].at \notin {"free", "registered", "schema"} => job[w].basis.schema = schema
    /\ job[w].at \in {"computed", "sent"} => job[w].basis.decisions = decisions

\* Who changes what a result is based on, and has not invalidated the old one.
Changes(c) ==
    \/ call[c].op.kind = "approve" /\ call[c].at \in {"schema", "destination", "invalidate"}
    \/ call[c].op.kind = "decide" /\ call[c].at = "invalidate"

\* Where the handlers of each kind get to.
InPlace(c) ==
    /\ call[c].at \in {"look", "ensure", "collect", "build", "save"} => call[c].op.kind = "poll"
    /\ call[c].at \in {"wait", "join"} => call[c].op.kind # "approve"
    /\ call[c].at = "destination" => call[c].op.kind # "decide"
    /\ call[c].at = "push" => call[c].op.kind = "deliver"
    /\ call[c].at = "pause" => call[c].op.kind = "rollback"

\* What a handler under way knows of the job and of what it has read.
HandlerIsCurrent(c) ==
    call[c].at # "idle" =>
        /\ InPlace(c)
        /\ call[c].at = "launch" =>
              call[c].thread \in Workers /\ job[call[c].thread].at = "registered"
        /\ call[c].at = "join" => call[c].thread = current
        /\ call[c].at \in {"schema", "register", "record"} \/ Changes(c) => NoJob
        /\ call[c].at = "schema" => call[c].op.version = approved
        /\ call[c].op.kind = "poll" =>
              /\ call[c].fingerprint.approved = approved
              /\ call[c].fingerprint.decisions = decisions
        /\ call[c].at = "build" => call[c].have = UpToDate
        /\ call[c].at = "save" => call[c].view.basis = UpToDate

SnapshotIsCurrent ==
    snapshot # NoSnapshot =>
        snapshot.view.basis = [schema |-> snapshot.fingerprint.approved,
                               decisions |-> snapshot.fingerprint.decisions]

CurrentInv ==
    /\ approved = schema \/ \E c \in Clients : call[c].at = "schema"
    /\ cached \in {NoResult, Basis} \/ \E c \in Clients : Changes(c)
    /\ \A w \in Workers : JobIsCurrent(w)
    /\ \A c \in Clients : HandlerIsCurrent(c)
    /\ SnapshotIsCurrent

\* The only handler under way steps.
Alone(c) == \A d \in Clients \ {c} : call'[d] = call[d] /\ call[d].at = "idle"

LEMMA GotoAlone ==
    ASSUME TypeInv, OneAtATime, NEW c \in Clients, NEW from, NEW to, from # "idle",
           Goto(c, from, to)
    PROVE  /\ Alone(c) /\ call[c].at = from
           /\ \/ to = "idle" /\ call'[c] = Returned
              \/ to # "idle" /\ call'[c] = [call[c] EXCEPT !.at = to]
BY DEF TypeInv, TypeOK, OneAtATime, Goto, Alone

LEMMA BeginAlone ==
    ASSUME TypeInv, OneAtATime', NEW c \in Clients, NEW request, NEW to, to # "idle",
           Begin(c, request, to)
    PROVE  /\ Alone(c) /\ call[c].at = "idle"
           /\ call'[c] = [call[c] EXCEPT !.at = to, !.op = request]
           /\ call'[c].at = to
BY DEF TypeInv, TypeOK, OneAtATime, Begin, Alone, Calls

\* Steps that touch neither what a result is based on nor any result.
LEMMA HandlerMoves ==
    ASSUME TypeInv, CurrentInv, NEW c \in Clients, Alone(c),
           UNCHANGED <<approved, schema, decisions, snapshot, cached, current, job>>,
           call[c].at \notin {"schema", "launch"}, Changes(c) => Changes(c)',
           HandlerIsCurrent(c)'
    PROVE  CurrentInv'
<1>1. \A d \in Clients : d # c =>
         ~Changes(d) /\ call[d].at = "idle" /\ call'[d] = call[d] /\ HandlerIsCurrent(d)'
  BY DEF Alone, Changes, HandlerIsCurrent
<1>2. approved' = schema'
  BY <1>1 DEF CurrentInv
<1>3. cached' \in {NoResult, Basis'} \/ \E d \in Clients : Changes(d)'
  BY <1>1 DEF CurrentInv, Basis
<1>4. \A w \in Workers : JobIsCurrent(w)'
  <2>1. \A w \in Workers : job[w].at # "registered"
    BY <1>1 DEF CurrentInv, JobIsCurrent
  <2>2. QED
    BY <2>1 DEF CurrentInv, JobIsCurrent
<1>5. SnapshotIsCurrent'
  BY DEF CurrentInv, SnapshotIsCurrent
<1>6. QED
  BY <1>1, <1>2, <1>3, <1>4, <1>5 DEF CurrentInv

\* Between two places most of what it knows stays as it is.
LEMMA HandlerGoesOn ==
    ASSUME TypeInv, OneAtATime, CurrentInv, NEW c \in Clients,
           NEW from \in ClientSteps \ {"idle", "schema", "launch"}, NEW to, Goto(c, from, to),
           to \notin {"launch", "join", "schema", "build", "save"},
           UNCHANGED <<approved, schema, decisions, snapshot, cached, current, job>>,
           to \in {"register", "record"} => NoJob,
           to \in {"look", "ensure", "collect"} => call[c].op.kind = "poll",
           to = "wait" => call[c].op.kind # "approve",
           to = "destination" => call[c].op.kind \notin {"approve", "decide"},
           to = "push" => call[c].op.kind = "deliver",
           to = "pause" => call[c].op.kind = "rollback",
           from \in {"destination", "invalidate"} \/ to = "invalidate" =>
              \/ call[c].op.kind \notin {"approve", "decide"}
              \/ call[c].op.kind = "approve" /\ from = "destination" /\ to = "invalidate"
    PROVE  CurrentInv'
<1>1. /\ Alone(c) /\ call[c].at = from
      /\ \/ to = "idle" /\ call'[c] = Returned
         \/ to # "idle" /\ call'[c] = [call[c] EXCEPT !.at = to]
  BY GotoAlone
<1>2. CASE to = "idle"
  <2>1. call'[c].at = "idle"
    BY <1>1, <1>2 DEF Returned
  <2>2. HandlerIsCurrent(c)' /\ ~Changes(c)
    BY <1>1, <1>2, <2>1 DEF HandlerIsCurrent, Changes
  <2>3. QED
    BY <1>1, <2>2, HandlerMoves
<1>3. CASE to # "idle"
  <2>1. /\ call'[c].at = to /\ call'[c].op = call[c].op
        /\ call'[c].fingerprint = call[c].fingerprint
    BY <1>1, <1>3 DEF TypeInv, TypeOK, Calls
  <2>2. Changes(c) => NoJob
    BY <1>1 DEF CurrentInv, HandlerIsCurrent
  <2>3. Changes(c)' <=> Changes(c)
    BY <1>1, <2>1 DEF Changes
  <2>4. HandlerIsCurrent(c)'
    <3>1. InPlace(c)'
      BY <2>1 DEF InPlace
    <3>2. call[c].op.kind = "poll" =>
              /\ call[c].fingerprint.approved = approved
              /\ call[c].fingerprint.decisions = decisions
      BY <1>1 DEF CurrentInv, HandlerIsCurrent
    <3>3. QED
      BY <1>3, <2>1, <2>2, <2>3, <3>1, <3>2 DEF HandlerIsCurrent, NoJob
  <2>5. QED
    BY <1>1, <2>3, <2>4, HandlerMoves
<1>4. QED
  BY <1>2, <1>3

\* Without a thread that is alive there is none at all: nobody else is about to
\* launch one.
LEMMA NothingRuns ==
    ASSUME TypeInv, CurrentInv, NEW c \in Clients, Alone(c), call[c].at # "launch",
           ~Running \/ current = NoThread
    PROVE  NoJob
<1>1. \A w \in Workers : job[w].at # "registered"
  BY DEF CurrentInv, JobIsCurrent, Alone
<1>2. \A w \in Workers : w # NoThread
  BY NoThreadAssumption
<1>3. QED
  BY <1>1, <1>2 DEF CurrentInv, JobIsCurrent, Running, Alive, NoJob

\* Whoever waits knows of no change that is not through.
LEMMA AfterWaiting ==
    ASSUME TypeInv, OneAtATime, CurrentInv, NEW c \in Clients, NEW from \in {"wait", "join"},
           Goto(c, from, AfterWait(call[c].op)),
           UNCHANGED <<approved, schema, decisions, snapshot, cached, current, job>>,
           call[c].op.kind = "decide" => NoJob
    PROVE  CurrentInv'
<1>1. call[c].at = from /\ InPlace(c)
  BY DEF Goto, CurrentInv, HandlerIsCurrent
<1>2. CASE call[c].op.kind = "poll"
  <2>1. AfterWait(call[c].op) = "collect"
    BY <1>2 DEF AfterWait
  <2>2. QED
    BY <1>2, <2>1, HandlerGoesOn DEF ClientSteps
<1>3. CASE call[c].op.kind = "decide"
  <2>1. AfterWait(call[c].op) \in {"idle", "record"}
    BY <1>3 DEF AfterWait
  <2>2. QED
    BY <1>3, <2>1, HandlerGoesOn DEF ClientSteps
<1>4. CASE call[c].op.kind \notin {"poll", "decide"}
  <2>1. AfterWait(call[c].op) = "destination" /\ call[c].op.kind # "approve"
    BY <1>1, <1>4 DEF AfterWait, InPlace
  <2>2. QED
    BY <1>4, <2>1, HandlerGoesOn DEF ClientSteps
<1>5. QED
  BY <1>2, <1>3, <1>4

LEMMA WaitStep ==
    ASSUME TypeInv, OneAtATime, CurrentInv, NEW c \in Clients,
           WaitLooks(c) \/ Joins(c) \/ JoinRaises(c)
              \/ (WaitTimesOut(c) /\ call[c].op.kind # "decide")
    PROVE  CurrentInv'
<1>1. UNCHANGED <<approved, schema, decisions, snapshot, cached, current, job>>
  BY DEF WaitLooks, Joins, JoinRaises, WaitTimesOut, storedVars, jobVars
<1>2. CASE WaitLooks(c) /\ current = NoThread
  <2>1. Goto(c, "wait", AfterWait(call[c].op))
    BY <1>2 DEF WaitLooks
  <2>2. Alone(c) /\ call[c].at = "wait"
    BY <2>1, GotoAlone
  <2>3. NoJob
    BY <1>2, <2>2, NothingRuns
  <2>4. QED
    BY <1>1, <2>1, <2>3, AfterWaiting
<1>3. CASE WaitLooks(c) /\ current # NoThread
  <2>1. /\ call[c].at = "wait"
        /\ call' = [call EXCEPT ![c].at = "join", ![c].thread = current]
    BY <1>3 DEF WaitLooks
  <2>2. Alone(c)
    BY <2>1 DEF Alone, OneAtATime, TypeInv, TypeOK
  <2>3. /\ call'[c].at = "join" /\ call'[c].thread = current /\ call'[c].op = call[c].op
        /\ call'[c].fingerprint = call[c].fingerprint
    BY <2>1 DEF TypeInv, TypeOK, Calls
  <2>4. ~Changes(c) /\ ~Changes(c)'
    BY <2>1, <2>3 DEF Changes
  <2>5. HandlerIsCurrent(c) /\ call[c].op.kind # "approve"
    BY <2>1 DEF CurrentInv, HandlerIsCurrent, InPlace
  <2>6. HandlerIsCurrent(c)'
    BY <1>1, <2>1, <2>3, <2>4, <2>5 DEF HandlerIsCurrent, InPlace
  <2>7. QED
    BY <1>1, <2>1, <2>2, <2>4, <2>6, HandlerMoves
<1>4. CASE Joins(c)
  <2>1. /\ Goto(c, "join", AfterWait(call[c].op)) /\ call[c].at = "join"
        /\ job[call[c].thread].at = "free"
    BY <1>4 DEF Joins, Goto
  <2>2. call[c].thread = current
    BY <2>1 DEF CurrentInv, HandlerIsCurrent
  <2>3. NoJob
    BY <2>1, <2>2 DEF CurrentInv, JobIsCurrent, NoJob
  <2>4. QED
    BY <1>1, <2>1, <2>3, AfterWaiting
<1>5. CASE JoinRaises(c)
  BY <1>1, <1>5, HandlerGoesOn DEF JoinRaises, ClientSteps
<1>6. CASE WaitTimesOut(c) /\ call[c].op.kind # "decide"
  BY <1>1, <1>6, AfterWaiting DEF WaitTimesOut
<1>7. QED
  BY <1>2, <1>3, <1>4, <1>5, <1>6

LEMMA StartStep ==
    ASSUME TypeInv, OneAtATime, CurrentInv, NEW c \in Clients,
           \/ StartLooks(c) \/ StartLaunches(c)
           \/ \E w \in Workers : StartRegisters(c, w)
    PROVE  CurrentInv'
<1>1. CASE StartLooks(c)
  <2>1. /\ Goto(c, "start", IF Running THEN AfterStart(call[c].op) ELSE "register")
        /\ UNCHANGED <<approved, schema, decisions, snapshot, cached, current, job>>
    BY <1>1 DEF StartLooks, storedVars, jobVars
  <2>2. Alone(c) /\ call[c].at = "start"
    BY <2>1, GotoAlone
  <2>3. CASE Running
    <3>1. /\ AfterStart(call[c].op) \in {"idle", "wait", "progress"}
          /\ call[c].op.kind = "approve" => AfterStart(call[c].op) = "idle"
      BY DEF AfterStart
    <3>2. QED
      BY <2>1, <2>3, <3>1, HandlerGoesOn DEF ClientSteps
  <2>4. CASE ~Running
    <3>1. NoJob
      BY <2>2, <2>4, NothingRuns
    <3>2. QED
      BY <2>1, <2>4, <3>1, HandlerGoesOn DEF ClientSteps
  <2>5. QED
    BY <2>3, <2>4
<1>2. ASSUME NEW w \in Workers, StartRegisters(c, w) PROVE CurrentInv'
  <2>1. /\ call[c].at = "register"
        /\ call' = [call EXCEPT ![c].at = "launch", ![c].thread = w]
        /\ job' = [job EXCEPT ![w].at = "registered"]
        /\ current' = w
        /\ UNCHANGED <<approved, schema, decisions, snapshot, cached>>
    BY <1>2 DEF StartRegisters, storedVars
  <2>2. Alone(c)
    BY <2>1 DEF Alone, OneAtATime, TypeInv, TypeOK
  <2>3. /\ call'[c].at = "launch" /\ call'[c].thread = w /\ call'[c].op = call[c].op
        /\ call'[c].fingerprint = call[c].fingerprint
    BY <2>1 DEF TypeInv, TypeOK, Calls
  <2>4. /\ job'[w].at = "registered"
        /\ \A x \in Workers \ {w} : job'[x] = job[x]
    BY <2>1 DEF TypeInv, TypeOK, Jobs
  <2>5. NoJob /\ HandlerIsCurrent(c)
    BY <2>1 DEF CurrentInv, HandlerIsCurrent
  <2>6. \A d \in Clients : call[d].at # "schema" /\ ~Changes(d)
    BY <2>1, <2>2 DEF Alone, Changes
  <2>7. \A d \in Clients : HandlerIsCurrent(d)'
    <3>1. \A d \in Clients \ {c} : call'[d].at = "idle"
      BY <2>2 DEF Alone
    <3>2. HandlerIsCurrent(c)'
      BY <2>1, <2>3, <2>4, <2>5 DEF HandlerIsCurrent, InPlace, Changes
    <3>3. QED
      BY <3>1, <3>2 DEF HandlerIsCurrent
  <2>8. \A x \in Workers : JobIsCurrent(x)'
    BY <2>1, <2>3, <2>4, <2>5 DEF JobIsCurrent, NoJob
  <2>9. QED
    BY <2>1, <2>6, <2>7, <2>8 DEF CurrentInv, SnapshotIsCurrent, Basis
<1>3. CASE StartLaunches(c)
  <2>1. /\ Goto(c, "launch", AfterStart(call[c].op)) /\ call[c].at = "launch"
        /\ job' = [job EXCEPT ![call[c].thread].at = "schema"]
        /\ UNCHANGED <<approved, schema, decisions, snapshot, cached, current>>
    BY <1>3 DEF StartLaunches, storedVars, Goto
  <2>2. /\ Alone(c)
        /\ AfterStart(call[c].op) \in {"idle", "wait", "progress"}
        /\ call[c].op.kind = "approve" => AfterStart(call[c].op) = "idle"
        /\ \/ AfterStart(call[c].op) = "idle" /\ call'[c] = Returned
           \/ /\ AfterStart(call[c].op) # "idle"
              /\ call'[c] = [call[c] EXCEPT !.at = AfterStart(call[c].op)]
    BY <2>1, GotoAlone DEF AfterStart
  <2>3. HandlerIsCurrent(c)
    BY DEF CurrentInv
  <2>4. HandlerIsCurrent(c)'
    <3>1. CASE call'[c] = Returned
      BY <3>1 DEF Returned, HandlerIsCurrent
    <3>2. CASE /\ AfterStart(call[c].op) \in {"wait", "progress"}
               /\ call'[c] = [call[c] EXCEPT !.at = AfterStart(call[c].op)]
      <4>1. /\ call'[c].at \in {"wait", "progress"} /\ call'[c].op = call[c].op
            /\ call'[c].fingerprint = call[c].fingerprint /\ call[c].op.kind # "approve"
        BY <2>2, <3>2 DEF TypeInv, TypeOK, Calls
      <4>2. QED
        BY <2>1, <2>3, <4>1 DEF HandlerIsCurrent, InPlace, Changes
    <3>3. QED
      BY <2>2, <3>1, <3>2
  <2>5. \A d \in Clients : HandlerIsCurrent(d)'
    BY <2>2, <2>4 DEF HandlerIsCurrent, Alone
  <2>6. \A d \in Clients : call[d].at # "schema" /\ ~Changes(d)
    BY <2>1, <2>2 DEF Alone, Changes
  <2>7. \A x \in Workers : JobIsCurrent(x)'
    <3>1. job[call[c].thread].at = "registered"
      BY <2>1, <2>3 DEF HandlerIsCurrent
    <3>2. ASSUME NEW x \in Workers, x = call[c].thread PROVE JobIsCurrent(x)'
      <4>1. job'[x].at = "schema"
        BY <2>1, <3>2 DEF TypeInv, TypeOK, Jobs
      <4>2. QED
        BY <2>1, <3>1, <3>2, <4>1 DEF CurrentInv, JobIsCurrent
    <3>3. ASSUME NEW x \in Workers, x # call[c].thread PROVE JobIsCurrent(x)'
      <4>1. job'[x] = job[x] /\ job[x].at # "registered"
        BY <2>1, <2>2, <3>3 DEF TypeInv, TypeOK, Alone, CurrentInv, JobIsCurrent
      <4>2. JobIsCurrent(x)
        BY DEF CurrentInv
      <4>3. UNCHANGED <<schema, decisions, current>>
        BY <2>1
      <4>4. QED
        BY <4>1, <4>2, <4>3 DEF JobIsCurrent
    <3>4. QED
      BY <3>2, <3>3
  <2>8. QED
    BY <2>1, <2>5, <2>6, <2>7 DEF CurrentInv, SnapshotIsCurrent, Basis
<1>4. QED
  BY <1>1, <1>2, <1>3

\* A step of the one handler under way changes what it alone knows of.
LEMMA ChangesAlone ==
    ASSUME NEW c \in Clients, Alone(c)
    PROVE  \A d \in Clients : d # c => ~Changes(d) /\ ~Changes(d)' /\ HandlerIsCurrent(d)'
BY DEF Alone, Changes, HandlerIsCurrent

LEMMA PollStep ==
    ASSUME TypeInv, OneAtATime, OneAtATime', CurrentInv, NEW c \in Clients,
           \/ PollLooks(c) \/ PollEnsures(c) \/ PollCollects(c)
           \/ PollTellsProgress(c) \/ PollTellsFailure(c) \/ PollBuilds(c) \/ PollSaves(c)
           \/ \E wait \in BOOLEAN : BeginPoll(c, wait)
    PROVE  CurrentInv'
<1>1. CASE PollLooks(c)
  <2>1. call[c].at = "look" /\ InPlace(c)
    BY <1>1 DEF PollLooks, Goto, CurrentInv, HandlerIsCurrent
  <2>2. QED
    BY <1>1, <2>1, HandlerGoesOn DEF PollLooks, storedVars, jobVars, ClientSteps, InPlace
<1>2. CASE PollTellsProgress(c) \/ PollTellsFailure(c)
  BY <1>2, HandlerGoesOn DEF PollTellsProgress, PollTellsFailure, storedVars, jobVars, ClientSteps
<1>3. ASSUME NEW from \in {"ensure", "collect"}, NEW to \in {"start", "progress"},
             TakeResult(c, from, to)
      PROVE  CurrentInv'
  <2>1. /\ call[c].at = from
        /\ call' = [call EXCEPT ![c].at = IF cached # NoResult THEN "build" ELSE to,
                                ![c].have = cached]
        /\ UNCHANGED <<approved, schema, decisions, snapshot, cached, current, job>>
    BY <1>3 DEF TakeResult, storedVars, jobVars
  <2>2. Alone(c)
    BY <2>1 DEF Alone, OneAtATime, TypeInv, TypeOK
  <2>3. /\ call'[c].at = IF cached # NoResult THEN "build" ELSE to
        /\ call'[c].have = cached
        /\ call'[c].op = call[c].op /\ call'[c].fingerprint = call[c].fingerprint
    BY <2>1 DEF TypeInv, TypeOK, Calls
  <2>4. HandlerIsCurrent(c) /\ call[c].op.kind = "poll"
    BY <2>1 DEF CurrentInv, HandlerIsCurrent, InPlace
  <2>5. cached \in {NoResult, Basis} /\ approved = schema
    BY <2>1, <2>2, <2>4, ChangesAlone DEF CurrentInv, Alone, Changes
  <2>6. UpToDate' = UpToDate /\ UpToDate = Basis
    BY <2>1, <2>5 DEF UpToDate, Basis
  <2>7. HandlerIsCurrent(c)'
    BY <2>1, <2>3, <2>4, <2>5, <2>6 DEF HandlerIsCurrent, InPlace, Changes
  <2>8. QED
    BY <2>1, <2>2, <2>4, <2>7, HandlerMoves DEF Changes
<1>4. CASE PollEnsures(c) \/ PollCollects(c)
  BY <1>3, <1>4 DEF PollEnsures, PollCollects
<1>5. CASE PollBuilds(c)
  <2>1. /\ call[c].at = "build"
        /\ call' = [call EXCEPT
             ![c].at = "save",
             ![c].view = [basis |-> call[c].have, decided |-> decisions, rows |-> rows,
                          autoSend |-> autoSend]]
        /\ UNCHANGED <<approved, schema, decisions, snapshot, cached, current, job>>
    BY <1>5 DEF PollBuilds, storedVars, jobVars
  <2>2. Alone(c)
    BY <2>1 DEF Alone, OneAtATime, TypeInv, TypeOK
  <2>3. /\ call'[c].at = "save" /\ call'[c].view.basis = call[c].have
        /\ call'[c].op = call[c].op /\ call'[c].fingerprint = call[c].fingerprint
    BY <2>1 DEF TypeInv, TypeOK, Calls
  <2>4. HandlerIsCurrent(c) /\ call[c].op.kind = "poll"
    BY <2>1 DEF CurrentInv, HandlerIsCurrent, InPlace
  <2>5. call[c].have = UpToDate /\ UpToDate' = UpToDate
    BY <2>1, <2>4 DEF HandlerIsCurrent, UpToDate
  <2>6. HandlerIsCurrent(c)'
    BY <2>1, <2>3, <2>4, <2>5 DEF HandlerIsCurrent, InPlace, Changes
  <2>7. QED
    BY <2>1, <2>2, <2>4, <2>6, HandlerMoves DEF Changes
<1>6. CASE PollSaves(c)
  <2>1. /\ Goto(c, "save", "idle") /\ call[c].at = "save"
        /\ snapshot' = [fingerprint |-> call[c].fingerprint, view |-> call[c].view]
        /\ UNCHANGED <<approved, schema, decisions, cached, current, job>>
    BY <1>6 DEF PollSaves, jobVars, Goto
  <2>2. Alone(c) /\ call'[c] = Returned
    BY <2>1, GotoAlone
  <2>3. HandlerIsCurrent(c) /\ call[c].op.kind = "poll"
    BY <2>1 DEF CurrentInv, HandlerIsCurrent, InPlace
  <2>4. SnapshotIsCurrent'
    BY <2>1, <2>3 DEF HandlerIsCurrent, SnapshotIsCurrent, UpToDate
  <2>5. \A d \in Clients : HandlerIsCurrent(d)'
    BY <2>2, ChangesAlone DEF HandlerIsCurrent, Returned
  <2>6. \A d \in Clients : call[d].at \notin {"schema", "launch"} /\ ~Changes(d)
    BY <2>1, <2>2, <2>3 DEF Alone, Changes
  <2>7. \A w \in Workers : JobIsCurrent(w)'
    BY <2>1, <2>6 DEF CurrentInv, JobIsCurrent
  <2>8. QED
    BY <2>1, <2>4, <2>5, <2>6, <2>7 DEF CurrentInv, Basis
<1>7. ASSUME NEW wait \in BOOLEAN, BeginPoll(c, wait) PROVE CurrentInv'
  <2>1. /\ call[c].at = "idle"
        /\ call' = [call EXCEPT ![c].at = "look",
                                ![c].op = [kind |-> "poll", wait |-> wait],
                                ![c].fingerprint = Fingerprint]
        /\ UNCHANGED <<approved, schema, decisions, snapshot, cached, current, job>>
    BY <1>7 DEF BeginPoll, storedVars, jobVars
  <2>2. /\ call'[c].at = "look" /\ call'[c].op.kind = "poll"
        /\ call'[c].fingerprint = Fingerprint
    BY <2>1 DEF TypeInv, TypeOK, Calls
  <2>3. Alone(c)
    BY <2>1, <2>2 DEF Alone, OneAtATime, TypeInv, TypeOK
  <2>4. HandlerIsCurrent(c)'
    BY <2>1, <2>2 DEF HandlerIsCurrent, InPlace, Changes, Fingerprint
  <2>5. QED
    BY <2>1, <2>3, <2>4, HandlerMoves DEF Changes
<1>8. QED
  BY <1>1, <1>2, <1>4, <1>5, <1>6, <1>7

LEMMA ChangeStep ==
    ASSUME TypeInv, OneAtATime, OneAtATime', CurrentInv, NEW c \in Clients,
           \/ Change(c) /\ \A version \in Versions : BeginApprove(c, version) => NoJob
           \/ RecordDecision(c) \/ SetSchema(c) \/ RegisterSchema(c)
           \/ RegisterFails(c) /\ call[c].op.kind # "approve"
           \/ \E sent \in {0, 1} : Push(c, sent)
           \/ Pause(c) \/ Invalidate(c) \/ ClearSnapshot(c)
    PROVE  CurrentInv'
<1>1. ASSUME NEW request, NEW to \in {"wait", "pause"}, Begin(c, request, to),
             request.kind # "poll", to = "wait" => request.kind # "approve",
             to = "pause" => request.kind = "rollback",
             UNCHANGED <<approved, schema, decisions, snapshot, cached, current, job>>
      PROVE  CurrentInv'
  <2>0. to # "idle" /\ Begin(c, request, to)
    BY <1>1
  <2>1. Alone(c) /\ call[c].at = "idle" /\ call'[c].at = to
        /\ call'[c] = [call[c] EXCEPT !.at = to, !.op = request]
    BY <2>0, BeginAlone
  <2>2. call'[c].op = request
    BY <2>1 DEF TypeInv, TypeOK, Calls
  <2>3. HandlerIsCurrent(c)'
    BY <1>1, <2>1, <2>2 DEF HandlerIsCurrent, InPlace, Changes
  <2>4. QED
    BY <1>1, <2>1, <2>3, HandlerMoves DEF Changes
<1>2. ASSUME NEW case \in Cases, BeginDecide(c, case) PROVE CurrentInv'
  BY <1>1, <1>2 DEF BeginDecide, storedVars, jobVars
<1>3. ASSUME NEW keepSending \in BOOLEAN, BeginDeliver(c, keepSending) PROVE CurrentInv'
  BY <1>1, <1>3 DEF BeginDeliver, jobVars
<1>4. ASSUME NEW undone \in {0, 1}, BeginRollback(c, undone) PROVE CurrentInv'
  BY <1>1, <1>4 DEF BeginRollback, jobVars
<1>5. ASSUME NEW version \in Versions, BeginApprove(c, version), NoJob PROVE CurrentInv'
  <2>1. /\ Begin(c, [kind |-> "approve", version |-> version], "schema")
        /\ approved' = version
        /\ UNCHANGED <<schema, decisions, snapshot, cached, current, job>>
    BY <1>5 DEF BeginApprove, jobVars
  <2>2. /\ Alone(c) /\ call'[c].at = "schema"
        /\ call'[c] = [call[c] EXCEPT !.at = "schema",
                                      !.op = [kind |-> "approve", version |-> version]]
    BY <2>1, BeginAlone
  <2>3. call'[c].op.kind = "approve" /\ call'[c].op.version = version
    BY <2>2 DEF TypeInv, TypeOK, Calls
  <2>4. HandlerIsCurrent(c)' /\ Changes(c)'
    BY <1>5, <2>1, <2>2, <2>3 DEF HandlerIsCurrent, InPlace, Changes, NoJob
  <2>5. \A d \in Clients : HandlerIsCurrent(d)'
    BY <2>2, <2>4, ChangesAlone
  <2>6. \A w \in Workers : JobIsCurrent(w)'
    BY <1>5, <2>1 DEF NoJob, JobIsCurrent
  <2>7. QED
    BY <2>1, <2>2, <2>4, <2>5, <2>6 DEF CurrentInv, SnapshotIsCurrent
<1>6. CASE RecordDecision(c)
  <2>1. /\ Goto(c, "record", "invalidate") /\ call[c].at = "record"
        /\ UNCHANGED <<approved, schema, snapshot, cached, current, job>>
    BY <1>6 DEF RecordDecision, jobVars, Goto
  <2>2. Alone(c) /\ call'[c] = [call[c] EXCEPT !.at = "invalidate"]
    BY <2>1, GotoAlone
  <2>3. /\ call'[c].at = "invalidate" /\ call'[c].op.kind = "decide"
        /\ HandlerIsCurrent(c)
    BY <2>1, <2>2 DEF TypeInv, TypeOK, Calls, RequestShape, CurrentInv
  <2>4. NoJob
    BY <2>1, <2>3 DEF HandlerIsCurrent
  <2>5. HandlerIsCurrent(c)' /\ Changes(c)'
    BY <2>1, <2>3, <2>4 DEF HandlerIsCurrent, InPlace, Changes, NoJob
  <2>6. \A d \in Clients : HandlerIsCurrent(d)'
    BY <2>2, <2>5, ChangesAlone
  <2>7. approved' = schema'
    BY <2>1, <2>2 DEF CurrentInv, Alone
  <2>8. \A w \in Workers : JobIsCurrent(w)'
    BY <2>1, <2>4 DEF NoJob, JobIsCurrent
  <2>9. QED
    BY <2>1, <2>5, <2>6, <2>7, <2>8 DEF CurrentInv, SnapshotIsCurrent
<1>7. CASE SetSchema(c)
  <2>1. /\ Goto(c, "schema", "destination") /\ call[c].at = "schema"
        /\ schema' = call[c].op.version
        /\ UNCHANGED <<approved, decisions, snapshot, cached, current, job>>
    BY <1>7 DEF SetSchema, jobVars, Goto
  <2>2. Alone(c) /\ call'[c] = [call[c] EXCEPT !.at = "destination"]
    BY <2>1, GotoAlone
  <2>3. /\ call'[c].at = "destination" /\ call'[c].op.kind = "approve"
        /\ HandlerIsCurrent(c)
    BY <2>1, <2>2 DEF TypeInv, TypeOK, Calls, RequestShape, CurrentInv
  <2>4. NoJob /\ call[c].op.version = approved
    BY <2>1, <2>3 DEF HandlerIsCurrent
  <2>5. HandlerIsCurrent(c)' /\ Changes(c)'
    BY <2>1, <2>3, <2>4 DEF HandlerIsCurrent, InPlace, Changes, NoJob
  <2>6. \A d \in Clients : HandlerIsCurrent(d)'
    BY <2>2, <2>5, ChangesAlone
  <2>7. \A w \in Workers : JobIsCurrent(w)'
    BY <2>1, <2>4 DEF NoJob, JobIsCurrent
  <2>8. QED
    BY <2>1, <2>4, <2>5, <2>6, <2>7 DEF CurrentInv, SnapshotIsCurrent
<1>8. CASE RegisterSchema(c) \/ (RegisterFails(c) /\ call[c].op.kind # "approve")
  <2>1. call[c].at = "destination" /\ InPlace(c)
    BY <1>8 DEF RegisterSchema, RegisterFails, Goto, CurrentInv, HandlerIsCurrent
  <2>2. call[c].op.kind # "decide"
    BY <2>1 DEF InPlace
  <2>3. CASE RegisterFails(c) /\ call[c].op.kind # "approve"
    BY <2>2, <2>3, HandlerGoesOn DEF RegisterFails, storedVars, jobVars, ClientSteps
  <2>4. CASE RegisterSchema(c)
    BY <2>2, <2>4, HandlerGoesOn DEF RegisterSchema, storedVars, jobVars, ClientSteps
  <2>5. QED
    BY <1>8, <2>3, <2>4
<1>9. CASE Pause(c) \/ \E sent \in {0, 1} : Push(c, sent)
  <2>1. call[c].at \in {"pause", "push"} /\ InPlace(c)
    BY <1>9 DEF Pause, Push, Goto, CurrentInv, HandlerIsCurrent
  <2>2. call[c].op.kind \in {"deliver", "rollback"}
    BY <2>1 DEF InPlace
  <2>3. CASE Pause(c)
    BY <2>2, <2>3, HandlerGoesOn DEF Pause, jobVars, ClientSteps
  <2>4. ASSUME NEW sent \in {0, 1}, Push(c, sent) PROVE CurrentInv'
    BY <2>2, <2>4, HandlerGoesOn DEF Push, jobVars, ClientSteps
  <2>5. QED
    BY <1>9, <2>3, <2>4
<1>10. CASE Invalidate(c) \/ ClearSnapshot(c)
  <2>1. \/ /\ Goto(c, "invalidate", "clear") /\ call[c].at = "invalidate"
           /\ cached' = NoResult
           /\ UNCHANGED <<approved, schema, decisions, snapshot, current, job>>
        \/ /\ Goto(c, "clear", "start") \/ Goto(c, "clear", "idle")
           /\ call[c].at = "clear"
           /\ snapshot' = NoSnapshot
           /\ UNCHANGED <<approved, schema, decisions, cached, current, job>>
    BY <1>10 DEF Invalidate, ClearSnapshot, storedVars, jobVars, Goto
  <2>2. /\ Alone(c)
        /\ \/ call'[c] = [call[c] EXCEPT !.at = "clear"]
           \/ call'[c] = [call[c] EXCEPT !.at = "start"]
           \/ call'[c] = Returned
    BY <2>1, GotoAlone
  <2>3. \/ /\ call'[c].at \in {"clear", "start"} /\ call'[c].op = call[c].op
           /\ call'[c].fingerprint = call[c].fingerprint
        \/ call'[c].at = "idle"
    BY <2>2 DEF TypeInv, TypeOK, Calls, Returned
  <2>4. HandlerIsCurrent(c)
    BY DEF CurrentInv
  <2>5. HandlerIsCurrent(c)'
    BY <2>1, <2>3, <2>4 DEF HandlerIsCurrent, InPlace, Changes
  <2>6. \A d \in Clients : HandlerIsCurrent(d)'
    BY <2>2, <2>5, ChangesAlone
  <2>7. \A d \in Clients : call[d].at \notin {"schema", "launch"}
    BY <2>1, <2>2 DEF Alone
  <2>8. cached' \in {NoResult, Basis'}
    <3>1. CASE cached' = NoResult
      BY <3>1
    <3>2. CASE call[c].at = "clear" /\ UNCHANGED <<schema, decisions, cached>>
      BY <2>2, <3>2, ChangesAlone DEF CurrentInv, Changes, Basis
    <3>3. QED
      BY <2>1, <3>1, <3>2
  <2>9. \A w \in Workers : JobIsCurrent(w)'
    BY <2>1, <2>7 DEF CurrentInv, JobIsCurrent
  <2>10. QED
    BY <2>1, <2>6, <2>7, <2>8, <2>9 DEF CurrentInv, SnapshotIsCurrent
<1>11. QED
  BY <1>2, <1>3, <1>4, <1>5, <1>6, <1>7, <1>8, <1>9, <1>10 DEF Change

LEMMA JobsStep ==
    ASSUME TypeInv, CurrentInv, NEW w \in Workers, WorkerStep(w) \/ WorkerFails(w)
    PROVE  CurrentInv'
<1>1. /\ UNCHANGED <<approved, schema, decisions, snapshot, current, call>>
      /\ \A x \in Workers \ {w} : job'[x] = job[x]
      /\ job[w].at \notin {"free", "registered"}
  BY DEF WorkerStep, WorkerReadsSchema, WorkerReadsDecisions, WorkerSends, WorkerStores,
     WorkerFails, Alive, storedVars, TypeInv, TypeOK
<1>2. \A c \in Clients : ~Changes(c) /\ call[c].at \notin {"schema", "register", "record"}
  BY <1>1 DEF CurrentInv, HandlerIsCurrent, Changes, NoJob
<1>3. approved = schema /\ cached \in {NoResult, Basis}
  BY <1>2 DEF CurrentInv
<1>4. JobIsCurrent(w) /\ job[w] \in Jobs
  BY DEF CurrentInv, TypeInv, TypeOK
<1>5. JobIsCurrent(w)' /\ cached' \in {NoResult, Basis} /\ job'[w].at # "registered"
  <2>1. CASE WorkerReadsSchema(w)
    <3>1. job'[w].at = "decisions" /\ job'[w].basis.schema = schema /\ cached' = cached
      BY <2>1 DEF WorkerReadsSchema, TypeInv, TypeOK, Jobs, Results
    <3>2. QED
      BY <1>1, <1>3, <1>4, <3>1 DEF JobIsCurrent
  <2>2. CASE WorkerReadsDecisions(w)
    <3>1. /\ job'[w].at = "computed" /\ job'[w].basis.decisions = decisions
          /\ job'[w].basis.schema = job[w].basis.schema /\ cached' = cached
          /\ job[w].at = "decisions"
      BY <2>2 DEF WorkerReadsDecisions, TypeInv, TypeOK, Jobs, Results
    <3>2. QED
      BY <1>1, <1>3, <1>4, <3>1 DEF JobIsCurrent
  <2>3. CASE WorkerSends(w)
    <3>1. /\ job'[w].at = "sent" /\ job'[w].basis = job[w].basis /\ cached' = cached
          /\ job[w].at = "computed"
      BY <2>3 DEF WorkerSends, TypeInv, TypeOK, Jobs
    <3>2. QED
      BY <1>1, <1>3, <1>4, <3>1 DEF JobIsCurrent
  <2>4. CASE WorkerStores(w)
    <3>1. /\ job'[w] = Ended /\ cached' = job[w].basis /\ job[w].at \in {"computed", "sent"}
      BY <2>4 DEF WorkerStores, TypeInv, TypeOK
    <3>2. job[w].basis = Basis
      BY <1>4, <3>1 DEF JobIsCurrent, Jobs, Results, Basis
    <3>3. QED
      BY <3>1, <3>2 DEF JobIsCurrent, Ended
  <2>5. CASE WorkerFails(w)
    <3>1. job'[w] = Ended /\ cached' = cached
      BY <2>5 DEF WorkerFails, TypeInv, TypeOK
    <3>2. QED
      BY <1>3, <3>1 DEF JobIsCurrent, Ended
  <2>6. QED
    BY <2>1, <2>2, <2>3, <2>4, <2>5 DEF WorkerStep
<1>6. ASSUME NEW x \in Workers PROVE JobIsCurrent(x)'
  <2>1. CASE x = w
    BY <1>5, <2>1
  <2>2. CASE x # w
    <3>1. job'[x] = job[x] /\ JobIsCurrent(x)
      BY <1>1, <2>2 DEF CurrentInv
    <3>2. QED
      BY <1>1, <3>1 DEF JobIsCurrent
  <2>3. QED
    BY <2>1, <2>2
<1>7. ASSUME NEW c \in Clients PROVE HandlerIsCurrent(c)'
  <2>1. call'[c] = call[c] /\ HandlerIsCurrent(c) /\ ~Changes(c)
        /\ call[c].at \notin {"schema", "register", "record"}
    BY <1>1, <1>2 DEF CurrentInv
  <2>2. call[c].at = "launch" =>
           call[c].thread \in Workers /\ job'[call[c].thread].at = "registered"
    BY <1>1, <2>1 DEF HandlerIsCurrent
  <2>3. QED
    BY <1>1, <2>1, <2>2 DEF HandlerIsCurrent, InPlace, Changes, UpToDate
<1>8. QED
  BY <1>1, <1>3, <1>5, <1>6, <1>7 DEF CurrentInv, SnapshotIsCurrent, Basis

LEMMA RestartStep ==
    ASSUME CurrentInv, ApiRestarts, \A c \in Clients : call[c].at # "schema"
    PROVE  CurrentInv'
<1>1. /\ UNCHANGED <<approved, schema, decisions, snapshot>>
      /\ cached' = NoResult
      /\ \A w \in Workers : job'[w].at = "free"
      /\ \A c \in Clients : call'[c].at = "idle"
  BY DEF ApiRestarts, storedVars, Ended, Returned
<1>2. QED
  BY <1>1 DEF CurrentInv, SnapshotIsCurrent, JobIsCurrent, HandlerIsCurrent

LEMMA CurrentStep ==
    ASSUME TypeInv, OneAtATime, OneAtATime', CurrentInv, [Next /\ Uninterrupted]_vars
    PROVE  CurrentInv'
<1>1. CASE UNCHANGED vars
  BY <1>1 DEF vars, CurrentInv, SnapshotIsCurrent, JobIsCurrent, HandlerIsCurrent, InPlace,
     Changes, NoJob, Basis, UpToDate
<1>2. CASE Next /\ Uninterrupted
  <2>1. ASSUME NEW c \in Clients, ClientStep(c) PROVE CurrentInv'
    BY <2>1, StartStep, WaitStep, PollStep, ChangeStep DEF ClientStep
  <2>2. ASSUME NEW c \in Clients, Ask(c) PROVE CurrentInv'
    BY <2>2, PollStep DEF Ask
  <2>3. ASSUME NEW c \in Clients, Change(c) PROVE CurrentInv'
    BY <1>2, <2>3, ChangeStep DEF Uninterrupted
  <2>4. ASSUME NEW w \in Workers, WorkerStep(w) \/ WorkerFails(w) PROVE CurrentInv'
    BY <2>4, JobsStep
  <2>5. ASSUME NEW c \in Clients, WaitTimesOut(c) \/ RegisterFails(c) PROVE CurrentInv'
    BY <1>2, <2>5, WaitStep, ChangeStep DEF Uninterrupted
  <2>6. CASE ApiRestarts
    BY <1>2, <2>6, RestartStep DEF Uninterrupted
  <2>7. QED
    BY <1>2, <2>1, <2>2, <2>3, <2>4, <2>5, <2>6 DEF Next, FaultStep
<1>3. QED
  BY <1>1, <1>2

LEMMA InitCurrentInv == Init => CurrentInv
BY DEF Init, CurrentInv, Ended, Returned, SnapshotIsCurrent, JobIsCurrent, HandlerIsCurrent

\* One thing at a time, and none of it cut short.
CalmSpec == Spec /\ []OneAtATime /\ [][Next /\ Uninterrupted]_vars

LEMMA CurrentInvariance == CalmSpec => [](TypeInv /\ CurrentInv)
<1>1. Spec => []TypeInv
  BY InitTypeInv, TypeStep, PTL DEF Spec
<1>2. TypeInv /\ OneAtATime /\ OneAtATime' /\ CurrentInv /\ [Next /\ Uninterrupted]_vars
         => CurrentInv'
  BY CurrentStep
<1>3. QED
  BY <1>1, <1>2, InitCurrentInv, PTL DEF CalmSpec, Spec

\* The result in memory is the answer to the decisions and the schema as they
\* are, once nothing is under way, however many jobs fail.
THEOREM ResultAlwaysCurrent == CalmSpec => []ResultIsCurrent
<1>1. CurrentInv => ResultIsCurrent
  <2>. SUFFICES ASSUME CurrentInv, Quiet, cached # NoResult PROVE cached = UpToDate
    BY DEF ResultIsCurrent
  <2>1. \A c \in Clients : call[c].at # "schema" /\ ~Changes(c)
    BY DEF Quiet, Changes
  <2>2. QED
    BY <2>1 DEF CurrentInv, Basis, UpToDate
<1>2. QED
  BY <1>1, CurrentInvariance, PTL

\* The stored view that the next poll would be served is that answer as well,
\* and it is so at every step of a handler or a job.
THEOREM ViewAlwaysCurrent == CalmSpec => [](IsServed => ServedView.basis = UpToDate)
<1>1. CurrentInv => (IsServed => ServedView.basis = UpToDate)
  BY DEF CurrentInv, SnapshotIsCurrent, IsServed, IsStored, Fingerprint, ServedView, UpToDate
<1>2. QED
  BY <1>1, CurrentInvariance, PTL

\* ... and so it is once nothing is under way (store.py, snapshot).
COROLLARY ViewIsAlwaysCurrent == CalmSpec => []ViewIsCurrent
<1>1. (IsServed => ServedView.basis = UpToDate) => ViewIsCurrent
  BY DEF ViewIsCurrent
<1>2. QED
  BY <1>1, ViewAlwaysCurrent, PTL
=============================================================================
