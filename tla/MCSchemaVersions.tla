-------------------------- MODULE MCSchemaVersions --------------------------
(***************************************************************************)
(* SchemaVersions for TLC.  People poll as often as they like; what they   *)
(* change and what goes wrong is bounded by "left".  An approval that      *)
(* nothing overlaps, and nothing interrupts, settles the version.          *)
(***************************************************************************)
EXTENDS SchemaVersionsProperties

CONSTANTS
    MaxDrafts, MaxApprovals, MaxDelivers,
    MaxFaults,          \* registrations that fail, restarts of the API
    Nobody,             \* in place of a client
    KeepsSending        \* the values of keep_sending that deliveries come with

ASSUME NobodyAssumption == Nobody \notin Clients
ASSUME KeepsSendingAssumption == KeepsSending \subseteq BOOLEAN

VARIABLES
    left,
    alone,              \* the client whose approval nothing has overlapped so far
    settled             \* the version it approved, once it has ended; or 0

mcVars == <<vars, left, alone, settled>>

Budget ==
    [drafts |-> MaxDrafts, approvals |-> MaxApprovals, delivers |-> MaxDelivers,
     faults |-> MaxFaults]

Spend(kind) == left[kind] > 0 /\ left' = [left EXCEPT ![kind] = @ - 1]

MCInit == Init /\ left = Budget /\ alone = Nobody /\ settled = 0

\* Threads are alike: a request is given to a fixed one of those that are free.
Free == {c \in Clients : call[c].at = "idle"}
\* A poll is served by a thread as well.
ThreadFree == Cardinality(Free) > IF poll.at = "idle" THEN 0 ELSE 1
IsNext(c) == ThreadFree /\ c \in Free /\ c = CHOOSE d \in Free : TRUE

\* One approval at a time: nothing of what is asked here holds of two.
NobodyApproves == \A c \in Clients : call[c].op # "approve"
NothingElse(c) ==
    /\ job.at = "free"
    /\ poll.at = "idle"
    /\ \A d \in Clients \ {c} : call[d].op # "deliver"

\* Drafts differ.
Undrafted ==
    Bodies \ ({versions[v].body : v \in DOMAIN versions} \union
              {call[c].body : c \in {d \in Clients : call[d].op = "draft"}})

Draft(c) ==
    /\ Spend("drafts")
    /\ Undrafted # {}
    /\ BeginDraft(c, CHOOSE body \in Undrafted : TRUE)
    /\ UNCHANGED <<alone, settled>>
Approve(c) ==
    /\ Spend("approvals")
    /\ NobodyApproves
    /\ \E version \in DOMAIN versions : BeginApprove(c, version)
    /\ alone' = IF NothingElse(c) THEN c ELSE Nobody
    /\ settled' = 0
Deliver(c) ==
    /\ Spend("delivers")
    /\ \E version \in DOMAIN versions, keepSending \in KeepsSending :
          BeginDeliver(c, version, keepSending)
    /\ alone' = Nobody
    /\ UNCHANGED settled
Settle(c) ==
    /\ StartJob(c)
    /\ settled' = IF alone = c THEN call[c].version ELSE settled
    /\ alone' = Nobody
    /\ UNCHANGED left
Work(c) ==
    \/ Settle(c)
    \/ ClientStep(c) /\ ~StartJob(c) /\ UNCHANGED <<left, alone, settled>>
JobWorks == JobStep /\ UNCHANGED <<left, alone, settled>>
Polls == ThreadFree /\ BeginPoll /\ alone' = Nobody /\ UNCHANGED <<left, settled>>
PollWorks == PollStep /\ UNCHANGED <<left, alone, settled>>
Fails ==
    /\ Spend("faults")
    /\ Outage \/ ApiRestarts
    /\ UNCHANGED <<alone, settled>>

MCNext ==
    \/ \E c \in Clients : IsNext(c) /\ (Draft(c) \/ Approve(c) \/ Deliver(c))
    \/ \E c \in Clients : Work(c)
    \/ JobWorks \/ Polls \/ PollWorks \/ Fails

MCSpec == MCInit /\ [][MCNext]_mcVars

\* Threads that can step step, and the console polls while a run is processing.
Fairness ==
    /\ \A c \in Clients : WF_mcVars(Work(c))
    /\ WF_mcVars(JobWorks)
    /\ WF_mcVars(Polls)
    /\ WF_mcVars(PollWorks)
FairMCSpec == MCSpec /\ Fairness

SettledBody == versions[settled].body

\* An approval that ran alone is in force everywhere: it is the approved
\* version, the run is processed with its schema, and the destination checks
\* that version by that schema - whatever approvals were cut short, and
\* whatever the destination missed, before it (main.py, approve_schema).  Nobody
\* is shown what was made with another schema.
SettledApprovalGoverns ==
    settled # 0 =>
        /\ Approvals = {settled}
        /\ runSchema = SettledBody
        /\ {r \in registered : r.version = settled} =
              {[version |-> settled, body |-> SettledBody]}
        /\ {result, snapshot.shape, poll.shape} \subseteq {NoBody, SettledBody}

\* ... and until the next approval nothing is sent under another version, or
\* shaped or checked by another schema (main.py, deliver and deliver_ready).
SettledSendings ==
    [][settled # 0 =>
          sent' \ sent \subseteq
              {[version |-> settled, shape |-> SettledBody, rules |-> SettledBody]}]_mcVars

\* What a poll is served: the stored view while no job runs and nothing has
\* changed since, otherwise the result, as far as there is one.
Shown ==
    IF job.at = "free" /\ \E v \in DOMAIN versions : IsInForce(v) /\ IsStored(v)
    THEN snapshot.shape ELSE result

\* "Approval ... reprocesses everything not yet delivered" (main.py,
\* approve_schema): in the end people are shown the settled schema's records,
\* from the database or from a result, although the API may restart at any step,
\* unless another version is approved.
SettledApprovalShows == settled # 0 ~> settled = 0 \/ Shown = SettledBody
=============================================================================
