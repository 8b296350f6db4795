----------------------------- MODULE MCDelivery -----------------------------
(***************************************************************************)
(* Delivery for TLC: how often people ask for something and how often      *)
(* something goes wrong is bounded, and counted in "used".                 *)
(***************************************************************************)
EXTENDS DeliveryProperties, TLC

CONSTANTS
    MaxPushes,      \* pushes started, by hand or by the background job
    MaxUndos,       \* rollbacks started
    MaxChanges,     \* changes of what the pipeline makes of the files
    MaxFaults,      \* lost answers, failed requests, restarts
    Drills,         \* failures a push may rehearse
    Restarts        \* the services that may restart: "api", "destination"

VARIABLE used

mcVars == <<vars, used>>

Unused == [pushes |-> 0, undos |-> 0, changes |-> 0, faults |-> 0]
Spend(kind, max) ==
    /\ used[kind] < max
    /\ used' = [used EXCEPT ![kind] = @ + 1]

MCInit == Init /\ used = Unused

\* A request that is gone is answered with a closed connection at no cost.
Gone(w) == \A q \in creates : q.by # w
UndoGone(u) == \A q \in undos : q.by # u

SystemStep ==
    /\ \/ \E w \in Pushers : PusherStep(w)
       \/ \E u \in Undoers : UndoerStep(u)
       \/ DestinationStep
       \/ \E w \in Pushers, outcome \in Retryables : Gone(w) /\ NoAnswer(w, outcome)
       \/ \E u \in Undoers : UndoGone(u) /\ NoUndoAnswer(u)
    /\ UNCHANGED used

PeopleStep ==
    \/ /\ Spend("pushes", MaxPushes)
       /\ \/ \E w \in Deliverers, mode \in Drills, keep \in BOOLEAN : Press(w, mode, keep)
          \/ \E w \in Jobs : JobReady(w)
    \/ Spend("undos", MaxUndos) /\ \E u \in Undoers : BeginUndo(u)
    \/ Spend("changes", MaxChanges) /\ ResultChanges

FaultyStep ==
    /\ Spend("faults", MaxFaults)
    /\ \/ \E w \in Pushers, outcome \in Retryables : ~Gone(w) /\ NoAnswer(w, outcome)
       \/ \E w \in Pushers, disarmed \in BOOLEAN : Unreachable(w, disarmed)
       \/ \E w \in Deliverers : drill[w] # "none" /\ Finish(w, FALSE)
       \/ \E w \in Pushers : ReconcileFails(w)
       \/ \E u \in Undoers : ~UndoGone(u) /\ NoUndoAnswer(u)
       \/ "api" \in Restarts /\ ApiRestarts
       \/ "destination" \in Restarts /\ DestinationRestarts

MCNext == SystemStep \/ PeopleStep \/ FaultyStep
MCSpec == MCInit /\ [][MCNext]_mcVars

\* A thread that can take a step takes one, the destination works through what
\* it was sent, and a client whose request is gone hears of a closed connection
\* or runs into its timeout.  Nothing is assumed of people or of faults.
Fairness ==
    /\ \A w \in Pushers : WF_mcVars(PusherStep(w) /\ UNCHANGED used)
    /\ \A u \in Undoers : WF_mcVars(UndoerStep(u) /\ UNCHANGED used)
    /\ WF_mcVars(DestinationStep /\ UNCHANGED used)
    /\ \A w \in Pushers :
         WF_mcVars(Gone(w) /\ NoAnswer(w, "transient_failed") /\ UNCHANGED used)
    /\ \A u \in Undoers : WF_mcVars(UndoGone(u) /\ NoUndoAnswer(u) /\ UNCHANGED used)
FairMCSpec == MCSpec /\ Fairness

\* Every push and every undo that was started comes to an end, whatever fails:
\* attempts are bounded, and no thread waits for another.
PushesEnd == \A w \in Pushers : pc[w] # "idle" ~> pc[w] = "idle"
UndosEnd == \A u \in Undoers : upc[u] # "idle" ~> upc[u] = "idle"

Threads == Permutations(Deliverers) \union Permutations(Undoers)
=============================================================================
