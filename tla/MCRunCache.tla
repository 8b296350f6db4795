----------------------------- MODULE MCRunCache -----------------------------
(***************************************************************************)
(* RunCache for TLC.  People poll as often as they like; what they change  *)
(* and what goes wrong is bounded by "left".                               *)
(***************************************************************************)
EXTENDS RunCacheProperties, TLC

CONSTANTS
    MaxDecides, MaxApprovals, MaxDelivers, MaxRollbacks,
    MaxTimeouts,        \* waits given up on
    MaxOutages,         \* registrations with the destination that fail
    MaxJobFailures,     \* background jobs that end in an exception
    MaxRestarts,        \* restarts of the API
    MaxRows,            \* rows of deliveries a behaviour is followed to
    ApprovesWhileRunning,   \* whether a schema is approved while the job runs
    Polls_Wait          \* the values of "wait" that polls come with

VARIABLE left

mcVars == <<vars, left>>

Budget ==
    [decides |-> MaxDecides, approvals |-> MaxApprovals, delivers |-> MaxDelivers,
     rollbacks |-> MaxRollbacks, timeouts |-> MaxTimeouts, outages |-> MaxOutages,
     jobFailures |-> MaxJobFailures, restarts |-> MaxRestarts]

Spend(kind) == left[kind] > 0 /\ left' = [left EXCEPT ![kind] = @ - 1]

MCInit == Init /\ left = Budget

SystemStep ==
    /\ (\E c \in Clients : ClientStep(c)) \/ (\E w \in Workers : WorkerStep(w))
    /\ UNCHANGED left

PollStep(c) == (\E wait \in Polls_Wait : BeginPoll(c, wait)) /\ UNCHANGED left

PeopleStep(c) ==
    \/ Spend("decides") /\ \E case \in Cases : BeginDecide(c, case)
    \/ /\ Spend("approvals")
       /\ ApprovesWhileRunning \/ \A w \in Workers : job[w].at = "free"
       /\ \E version \in Versions : BeginApprove(c, version)
    \/ Spend("delivers") /\ \E keepSending \in BOOLEAN : BeginDeliver(c, keepSending)
    \/ Spend("rollbacks") /\ \E undone \in {0, 1} : BeginRollback(c, undone)

FaultyStep ==
    \/ Spend("timeouts") /\ \E c \in Clients : WaitTimesOut(c)
    \/ Spend("outages") /\ \E c \in Clients : RegisterFails(c)
    \/ Spend("jobFailures") /\ \E w \in Workers : WorkerFails(w)
    \/ Spend("restarts") /\ ApiRestarts

MCNext == SystemStep \/ (\E c \in Clients : PollStep(c) \/ PeopleStep(c)) \/ FaultyStep
MCSpec == MCInit /\ [][MCNext]_mcVars

\* Threads that can step step.
Fairness ==
    /\ \A c \in Clients : WF_mcVars(ClientStep(c) /\ UNCHANGED left)
    /\ \A w \in Workers : WF_mcVars(WorkerStep(w) /\ UNCHANGED left)
FairMCSpec == MCSpec /\ Fairness

\* ... and the console, which polls while a run is processing, keeps polling.
PollingMCSpec == FairMCSpec /\ \A c \in Clients : WF_mcVars(PollStep(c))

\* Every handler returns, whatever the job is doing.
HandlersReturn == \A c \in Clients : call[c].at # "idle" ~> call[c].at = "idle"

\* A decision shows in the end, whatever failed or restarted meanwhile.
DecisionShows ==
    \A k \in Cases : k \in decisions ~> (IsServed /\ k \in ServedView.basis.decisions)

\* Enough rows to tell a view of before a delivery from one of after it.
FewRows == rows <= MaxRows

Threads == Permutations(Clients) \union Permutations(Workers)
=============================================================================
