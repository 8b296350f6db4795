------------------------- MODULE RunCacheProperties -------------------------
(***************************************************************************)
(* What is asked of RunCache.                                              *)
(***************************************************************************)
EXTENDS RunCache

\* What a result would be based on if it were computed now.
UpToDate == [schema |-> approved, decisions |-> decisions]

\* Nothing is under way.
Quiet == (\A c \in Clients : call[c].at = "idle") /\ (\A w \in Workers : job[w].at = "free")

\* The view that the next poll would be served from the database.
ServedView == snapshot.view
IsServed == IsStored(Fingerprint)

\* The result kept in memory is the answer to the decisions and the schema as
\* they are: "A decision changes the answer, so the cached result must go"
\* (jobs.py, invalidate; decide, approve_schema).
ResultIsCurrent == Quiet /\ cached # NoResult => cached = UpToDate

\* The stored view is served only while nothing that feeds it has changed
\* (store.py, snapshot; main.py, _fingerprint).
ViewIsCurrent == Quiet /\ IsServed => ServedView.basis = UpToDate

\* However handlers and jobs overlap, a view served from the database never asks
\* a question that has been answered and never misses a delivery: get_run reads
\* the tables after the fingerprint.
ServedViewKnowsTables ==
    IsServed => ServedView.decided = decisions /\ ServedView.rows = rows
=============================================================================
