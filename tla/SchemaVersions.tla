--------------------------- MODULE SchemaVersions ---------------------------
(***************************************************************************)
(* The target schema of one run: drafts, their approval, and what travels  *)
(* to the destination under which version (main.py put_schema, recommend,  *)
(* approve_schema, deliver, deliver_ready; store.py schema_versions).      *)
(*                                                                         *)
(* The version in force is written down in three places: the row of        *)
(* schema_versions that is approved, runs.schema_json, which everything is *)
(* processed with, and the rules registered with the destination.  No      *)
(* transaction spans them.  A handler is a thread of the pool; each of its *)
(* steps is one statement, one access to Jobs or one request.  The view    *)
(* that polls store outlives the API, and so is a fourth place.            *)
(***************************************************************************)
EXTENDS Naturals, Sequences

CONSTANTS
    Clients,        \* threads of the pool
    Bodies,         \* schemas that people and the agent may draft
    NoBody          \* in place of a schema where there is none

ASSUME NoBodyAssumption == NoBody \notin Bodies

VARIABLES
    \* The database.
    versions,       \* rows of schema_versions, by version number
    runSchema,      \* runs.schema_json
    autoSend,       \* runs.auto_send
    \* Jobs, in memory.
    result,         \* the schema by which the result in _results was shaped
    job,            \* the background job: where it is, what it has read
    \* The destination.
    registered,     \* run_schemas: pairs of a version and its rules
    sent,           \* what it was sent: version, schema it was shaped by, rules
    \* What people are shown of the run.
    snapshot,       \* the view in table snapshots: what it is filed under, its schema
    poll,           \* the console's request: where it is, and its locals
    \* Threads of the pool.
    call            \* where each handler is, and its locals

database == <<versions, runSchema, autoSend>>
memory == <<result, job>>
destination == <<registered, sent>>
views == <<snapshot, poll>>
vars == <<versions, runSchema, autoSend, result, job, registered, sent, snapshot, poll, call>>

Rows == [state : {"draft", "approved", "superseded"}, body : Bodies]
ClientSteps ==
    {"idle", "insert", "supersede", "approve", "rules", "take", "replay", "read",
     "register", "push", "invalidate", "clear", "start"}
Calls ==
    [at : ClientSteps, op : {"none", "draft", "approve", "deliver"}, version : Nat,
     body : Bodies \union {NoBody}, shape : Bodies \union {NoBody}]
Returned ==
    [at |-> "idle", op |-> "none", version |-> 0, body |-> NoBody, shape |-> NoBody]
Jobs ==
    [at : {"free", "load", "ready", "approved", "register", "push", "store"},
     version : Nat, body : Bodies \union {NoBody}, shape : Bodies \union {NoBody}]
NoJob == [at |-> "free", version |-> 0, body |-> NoBody, shape |-> NoBody]
\* A view is filed under the version in force when the poll began, or under 0 when
\* rows of deliveries have been written since: no fingerprint will match it again.
Snapshots == [version : Nat, shape : Bodies \union {NoBody}]
NoSnapshot == [version |-> 0, shape |-> NoBody]
PollCalls ==
    [at : {"idle", "ensure", "collect", "save"},
     version : Nat, shape : Bodies \union {NoBody}]
NoPoll == [at |-> "idle", version |-> 0, shape |-> NoBody]
Registrations == [version : Nat, body : Bodies]
Sendings == [version : Nat, shape : Bodies, rules : Bodies]

TypeOK ==
    /\ versions \in Seq(Rows)
    /\ runSchema \in Bodies \union {NoBody}
    /\ autoSend \in BOOLEAN
    /\ result \in Bodies \union {NoBody}
    /\ job \in Jobs
    /\ registered \subseteq Registrations
    /\ sent \subseteq Sendings
    /\ snapshot \in Snapshots
    /\ poll \in PollCalls
    /\ call \in [Clients -> Calls]

\* The run's files are uploaded; a run starts without a schema.
Init ==
    /\ versions = <<>>
    /\ runSchema = NoBody
    /\ autoSend = FALSE
    /\ result = NoBody
    /\ job = NoJob
    /\ registered = {}
    /\ sent = {}
    /\ snapshot = NoSnapshot
    /\ poll = NoPoll
    /\ call = [c \in Clients |-> Returned]

\* A handler is called, goes from one place to another, or returns.
Called(at, op, version, body) ==
    [at |-> at, op |-> op, version |-> version, body |-> body, shape |-> NoBody]
Goto(c, from, to) ==
    /\ call[c].at = from
    /\ call' = [call EXCEPT ![c] = IF to = "idle" THEN Returned ELSE [@ EXCEPT !.at = to]]

-----------------------------------------------------------------------------
(***************************************************************************)
(* Drafts: put_schema, recommend.                                          *)
(***************************************************************************)

\* The schema has been parsed (or proposed by the model); SELECT MAX(version).
BeginDraft(c, body) ==
    /\ call[c].at = "idle"
    /\ call' = [call EXCEPT ![c] = Called("insert", "draft", Len(versions) + 1, body)]
    /\ UNCHANGED <<database, memory, destination, views>>

\* Mutant: without UNIQUE a number that has been taken is written over.
InsertDraft_Replaces(c) ==
    /\ Goto(c, "insert", "idle")
    /\ versions' = [v \in DOMAIN versions \union {call[c].version} |->
                       IF v = call[c].version
                       THEN [state |-> "draft", body |-> call[c].body]
                       ELSE versions[v]]
    /\ UNCHANGED <<runSchema, autoSend, memory, destination, views>>

\* INSERT; UNIQUE (run_id, version) refuses a number that has been taken since.
InsertDraft(c) ==
    /\ Goto(c, "insert", "idle")
    /\ versions' = IF call[c].version = Len(versions) + 1
                   THEN Append(versions, [state |-> "draft", body |-> call[c].body])
                   ELSE versions
    /\ UNCHANGED <<runSchema, autoSend, memory, destination, views>>

-----------------------------------------------------------------------------
(***************************************************************************)
(* Approval.                                                               *)
(***************************************************************************)

\* Mutant: the run gets the schema before the version is approved.
BeginApprove_RulesFirst(c, version) ==
    /\ call[c].at = "idle"
    /\ version \in DOMAIN versions
    /\ call' = [call EXCEPT ![c] =
                     Called("supersede", "approve", version, versions[version].body)]
    /\ runSchema' = versions[version].body
    /\ UNCHANGED <<versions, autoSend, memory, destination, views>>

\* Any version may be approved, one that has been superseded as well.
BeginApprove(c, version) ==
    /\ call[c].at = "idle"
    /\ version \in DOMAIN versions
    /\ call' = [call EXCEPT ![c] =
                     Called("supersede", "approve", version, versions[version].body)]
    /\ UNCHANGED <<database, memory, destination, views>>

\* Mutant: only earlier versions are superseded.
SupersedeApproved_Earlier(c) ==
    /\ Goto(c, "supersede", "approve")
    /\ versions' = [v \in DOMAIN versions |->
                       IF versions[v].state = "approved" /\ v < call[c].version
                       THEN [versions[v] EXCEPT !.state = "superseded"]
                       ELSE versions[v]]
    /\ UNCHANGED <<runSchema, autoSend, memory, destination, views>>

SupersedeApproved(c) ==
    /\ Goto(c, "supersede", "approve")
    /\ versions' = [v \in DOMAIN versions |->
                       IF versions[v].state = "approved"
                       THEN [versions[v] EXCEPT !.state = "superseded"]
                       ELSE versions[v]]
    /\ UNCHANGED <<runSchema, autoSend, memory, destination, views>>

ApproveVersion(c) ==
    /\ Goto(c, "approve", "rules")
    /\ versions' = [versions EXCEPT ![call[c].version].state = "approved"]
    /\ UNCHANGED <<runSchema, autoSend, memory, destination, views>>

\* Mutant: only the first approval gives the run its schema.
SetRunSchema_First(c) ==
    /\ Goto(c, "rules", "register")
    /\ runSchema' = IF runSchema = NoBody THEN call[c].body ELSE runSchema
    /\ UNCHANGED <<versions, autoSend, memory, destination, views>>

SetRunSchema(c) ==
    /\ Goto(c, "rules", "register")
    /\ runSchema' = call[c].body
    /\ UNCHANGED <<versions, autoSend, memory, destination, views>>

\* INSERT OR REPLACE INTO run_schemas, at the destination.
Registering(version, body) ==
    {r \in registered : r.version # version} \union {[version |-> version, body |-> body]}

Register(c) ==
    /\ Goto(c, "register", IF call[c].op = "approve" THEN "invalidate" ELSE "push")
    /\ registered' = Registering(call[c].version, call[c].body)
    /\ UNCHANGED <<database, memory, sent, views>>

\* Mutant: an outage is not fatal, as in the job.
RegisterFails_GoesOn(c) ==
    /\ Goto(c, "register", IF call[c].op = "approve" THEN "invalidate" ELSE "push")
    /\ UNCHANGED <<database, memory, destination, views>>

\* The destination cannot be reached: the handler raises.
RegisterFails(c) ==
    /\ Goto(c, "register", "idle")
    /\ UNCHANGED <<database, memory, destination, views>>

\* Mutant: the result stays.
Invalidate_KeepsResult(c) ==
    /\ Goto(c, "invalidate", "clear")
    /\ UNCHANGED <<database, memory, destination, views>>

\* How an approval and a push end: the result goes, then the stored view.
Invalidate(c) ==
    /\ Goto(c, "invalidate", "clear")
    /\ result' = NoBody
    /\ UNCHANGED <<database, job, destination, views>>

ClearSnapshot(c) ==
    /\ Goto(c, "clear", IF call[c].op = "approve" THEN "start" ELSE "idle")
    /\ snapshot' = NoSnapshot
    /\ UNCHANGED <<database, memory, destination, poll>>

\* One job at a time: start returns at once while one runs.
Started == IF job.at = "free" THEN [NoJob EXCEPT !.at = "load"] ELSE job

StartJob(c) ==
    /\ Goto(c, "start", "idle")
    /\ job' = Started
    /\ UNCHANGED <<database, result, destination, views>>

-----------------------------------------------------------------------------
(***************************************************************************)
(* Sending.                                                                *)
(***************************************************************************)

\* The approved version; of several, the latest.
IsApproved(v) == v \in DOMAIN versions /\ versions[v].state = "approved"
IsInForce(v) == IsApproved(v) /\ \A w \in DOMAIN versions : IsApproved(w) => w <= v

\* What the destination has of a version when a push arrives; a version it does
\* not know is refused (400).
Received(version, shape) ==
    {[version |-> version, shape |-> shape, rules |-> r.body] :
        r \in {r \in registered : r.version = version}}

BeginDeliver(c, version, keepSending) ==
    /\ call[c].at = "idle"
    /\ IsInForce(version)
    /\ autoSend' = (autoSend \/ keepSending)
    /\ call' = [call EXCEPT ![c] = Called("take", "deliver", version, NoBody)]
    /\ UNCHANGED <<versions, runSchema, memory, destination, views>>

\* jobs.result; waiting for the job may time out, so it is no guard.
TakeResult(c) ==
    /\ call[c].at = "take"
    /\ call' = [call EXCEPT ![c].at = IF result = NoBody THEN "replay" ELSE "read",
                            ![c].shape = result]
    /\ UNCHANGED <<database, memory, destination, views>>

\* Mutant: an empty schema is not refused.
ReplayItself_Empty(c) ==
    /\ call[c].at = "replay"
    /\ call' = [call EXCEPT ![c].at = "read", ![c].shape = runSchema]
    /\ UNCHANGED <<database, memory, destination, views>>

\* Without a result the handler replays by itself; it raises on an empty schema.
ReplayItself(c) ==
    /\ call[c].at = "replay"
    /\ call' = [call EXCEPT ![c] = IF runSchema = NoBody THEN Returned
                                   ELSE [@ EXCEPT !.at = "read", !.shape = runSchema]]
    /\ UNCHANGED <<database, memory, destination, views>>

ReadRules(c) ==
    /\ call[c].at = "read"
    /\ call' = [call EXCEPT ![c] = IF runSchema = NoBody THEN Returned
                                   ELSE [@ EXCEPT !.at = "register", !.body = runSchema]]
    /\ UNCHANGED <<database, memory, destination, views>>

\* _push skips what the destination has.  Whatever it sends leaves rows, and the
\* fingerprint has changed.
Pushes(version, shape) ==
    \/ /\ sent' = sent \union Received(version, shape)
       /\ snapshot' = NoSnapshot
       /\ poll' = [poll EXCEPT !.version = 0]
    \/ UNCHANGED <<sent, views>>

Push(c) ==
    /\ Goto(c, "push", "invalidate")
    /\ Pushes(call[c].version, call[c].shape)
    /\ UNCHANGED <<database, memory, registered>>

-----------------------------------------------------------------------------
(***************************************************************************)
(* The background job: _process_run, replay, deliver_ready.                *)
(***************************************************************************)

\* replay reads runs.schema_json and raises when it is empty.
JobReplays ==
    /\ job.at = "load"
    /\ job' = IF runSchema = NoBody THEN NoJob
              ELSE [job EXCEPT !.at = "ready", !.shape = runSchema]
    /\ UNCHANGED <<database, result, destination, call, views>>

\* Records are ready and sent automatically, or nothing is sent (nothing is
\* ready, sending is by hand, or paused).  get_run of the store.
JobReadsRun ==
    /\ job.at = "ready"
    /\ \/ autoSend /\ runSchema # NoBody /\ job' = [job EXCEPT !.at = "approved", !.body = runSchema]
       \/ job' = [job EXCEPT !.at = "store"]
    /\ UNCHANGED <<database, result, destination, call, views>>

JobReadsApproved ==
    /\ job.at = "approved"
    /\ \/ \E v \in DOMAIN versions :
             IsInForce(v) /\ job' = [job EXCEPT !.at = "register", !.version = v]
       \/ (\A v \in DOMAIN versions : ~IsApproved(v)) /\ job' = [job EXCEPT !.at = "store"]
    /\ UNCHANGED <<database, result, destination, call, views>>

JobRegisters ==
    /\ job.at = "register"
    /\ registered' = Registering(job.version, job.body)
    /\ job' = [job EXCEPT !.at = "push"]
    /\ UNCHANGED <<database, result, sent, call, views>>

\* An outage is not fatal: nothing is sent.
JobRegisterFails ==
    /\ job.at = "register"
    /\ job' = [job EXCEPT !.at = "store"]
    /\ UNCHANGED <<database, result, destination, call, views>>

JobPushes ==
    /\ job.at = "push"
    /\ Pushes(job.version, job.shape)
    /\ job' = [job EXCEPT !.at = "store"]
    /\ UNCHANGED <<database, result, registered, call>>

JobStores ==
    /\ job.at = "store"
    /\ result' = job.shape
    /\ job' = NoJob
    /\ UNCHANGED <<database, destination, call, views>>

-----------------------------------------------------------------------------
(***************************************************************************)
(* get_run.  A run that nobody has touched since its view was stored is    *)
(* served from the database, unless a job runs, and nothing is started.    *)
(* Otherwise the view is made of the result, and stored.                   *)
(***************************************************************************)

IsStored(version) == snapshot.version = version

\* The fingerprint, and the look for a view filed under it.  Without an approved
\* schema nothing is read or started.
BeginPoll ==
    /\ poll.at = "idle"
    /\ \E v \in DOMAIN versions :
          /\ IsInForce(v)
          /\ IsStored(v) => job.at # "free"
          /\ poll' = [NoPoll EXCEPT !.at = "ensure", !.version = v]
    /\ UNCHANGED <<database, memory, destination, snapshot, call>>

\* Mutant: a poll leaves it to approvals to start the job.
PollStarts_LooksOnly ==
    /\ poll.at = "ensure"
    /\ result = NoBody
    /\ poll' \in {NoPoll, [poll EXCEPT !.at = "collect"]}
    /\ UNCHANGED <<database, memory, destination, snapshot, call>>

\* Without a result the job is started; the answer is that the run is
\* processing, or the poll waits for the job.
PollStarts ==
    /\ poll.at = "ensure"
    /\ result = NoBody
    /\ job' = Started
    /\ poll' \in {NoPoll, [poll EXCEPT !.at = "collect"]}
    /\ UNCHANGED <<database, result, destination, snapshot, call>>

\* Waiting may time out here as well.
PollGivesUp ==
    /\ poll.at = "collect"
    /\ result = NoBody
    /\ poll' = NoPoll
    /\ UNCHANGED <<database, memory, destination, snapshot, call>>

PollTakesResult ==
    /\ poll.at \in {"ensure", "collect"}
    /\ result # NoBody
    /\ poll' = [poll EXCEPT !.at = "save", !.shape = result]
    /\ UNCHANGED <<database, memory, destination, snapshot, call>>

PollSaves ==
    /\ poll.at = "save"
    /\ snapshot' = IF poll.version = 0 THEN NoSnapshot
                   ELSE [version |-> poll.version, shape |-> poll.shape]
    /\ poll' = NoPoll
    /\ UNCHANGED <<database, memory, destination, call>>

-----------------------------------------------------------------------------
\* The API stops and starts again: the threads and the memory are gone.
ApiRestarts ==
    /\ result' = NoBody
    /\ job' = NoJob
    /\ poll' = NoPoll
    /\ call' = [c \in Clients |-> Returned]
    /\ UNCHANGED <<database, destination, snapshot>>

Approving(c) ==
    SupersedeApproved(c) \/ ApproveVersion(c) \/ SetRunSchema(c) \/ StartJob(c)
Delivering(c) == TakeResult(c) \/ ReplayItself(c) \/ ReadRules(c) \/ Push(c)
Forgetting(c) == Invalidate(c) \/ ClearSnapshot(c)
ClientStep(c) ==
    InsertDraft(c) \/ Approving(c) \/ Delivering(c) \/ Register(c) \/ Forgetting(c)
PollStep == PollStarts \/ PollGivesUp \/ PollTakesResult \/ PollSaves
JobStep ==
    \/ JobReplays \/ JobReadsRun \/ JobReadsApproved \/ JobRegisters \/ JobPushes \/ JobStores
Outage == JobRegisterFails \/ \E c \in Clients : RegisterFails(c)
Ask(c) ==
    \/ \E body \in Bodies : BeginDraft(c, body)
    \/ \E version \in DOMAIN versions : BeginApprove(c, version)
    \/ \E version \in DOMAIN versions, keepSending \in BOOLEAN :
          BeginDeliver(c, version, keepSending)

Next ==
    \/ \E c \in Clients : Ask(c) \/ ClientStep(c)
    \/ JobStep \/ BeginPoll \/ PollStep \/ Outage \/ ApiRestarts

Spec == Init /\ [][Next]_vars
=============================================================================
