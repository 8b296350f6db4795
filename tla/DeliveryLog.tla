---------------------------- MODULE DeliveryLog ----------------------------
(***************************************************************************)
(* The deliveries table of the migration API and the questions asked of    *)
(* it.  The table only grows; every question about where a record stands   *)
(* is answered by reading all of its rows again (dbx_api/store.py).        *)
(*                                                                         *)
(* Every question is asked per natural key, so the rows are given here as  *)
(* the sequence of one record's rows, in the order they were written.  The *)
(* columns nothing reads back (attempt number, status code, response text  *)
(* of a success, payload) are left out.                                    *)
(***************************************************************************)
EXTENDS Integers, Sequences, FiniteSetsExt

\* What can be written in the column "outcome": what an attempt to send ended
\* with, and what an attempt to undo ended with.
Successes == {"accepted", "duplicate"}
Retryables == {"transient_failed", "uncertain"}
Refusals == {"rejected", "conflict"}
SendOutcomes == Successes \union Retryables \union Refusals
UndoOutcomes == {"rolled_back", "rollback_failed"}

\* The column "target_record_id".  A record the destination stored is named by
\* the generation it was stored under, which is unique within one natural key
\* because the destination's idempotency keys are.  A Phantom is an id the
\* destination answered with and did not store.
NoId == 0
Phantom == -1
Ids == Nat \union {Phantom}

\* One row of the table, and an attempt that is not a row yet.
Rows == [gen : Nat \ {0}, outcome : SendOutcomes \union UndoOutcomes, id : Ids]
Attempts == [outcome : SendOutcomes, id : Ids]

IsSuccess(row) == row.outcome \in Successes

\* A record nothing was ever written about is sent under generation 1.
Generations(rows) == {1} \union {rows[i].gen : i \in DOMAIN rows}

\* Mutant: every row written starts a new identity.
Generation_PerAttempt(rows) == Len(rows) + 1

\* The generation the record is sent under next.
Generation(rows) == Max(Generations(rows))

\* Rows of one generation, by position.
At(rows, g) == {i \in DOMAIN rows : rows[i].gen = g}

\* Mutant: an acceptance counts whatever generation it was made under.
Accepted_AnyGeneration(rows) ==
    \E i \in DOMAIN rows :
        /\ IsSuccess(rows[i])
        /\ \A j \in DOMAIN rows : j > i => rows[j].outcome # "rolled_back"

\* Mutant: an undo counts against acceptances written after it.
Accepted_UndoneForGood(rows) ==
    LET current == At(rows, Generation(rows)) IN
    /\ \E i \in current : IsSuccess(rows[i])
    /\ \A j \in current : rows[j].outcome # "rolled_back"

\* accepted_keys: an acceptance at the current generation that no later
\* rolled_back row of that generation takes away.
Accepted(rows) ==
    LET current == At(rows, Generation(rows)) IN
    \E i \in current :
        /\ IsSuccess(rows[i])
        /\ \A j \in current : j > i => rows[j].outcome # "rolled_back"

\* What accepted_keys returns for the key, 0 standing for its absence.
AcceptedGeneration(rows) == IF Accepted(rows) THEN Generation(rows) ELSE 0

\* The rows the rollback handler may undo when it saw the record accepted at
\* generation g, and the one it keeps: the latest of them.
Undoable(rows, g) ==
    {i \in At(rows, g) : IsSuccess(rows[i]) /\ rows[i].id # NoId}
IsUndoTarget(rows, g, i) ==
    /\ i \in Undoable(rows, g)
    /\ \A j \in Undoable(rows, g) : j <= i

\* _failed_keys: refused, with no acceptance since.
Refused(rows) ==
    \E i \in DOMAIN rows :
        /\ rows[i].outcome = "rejected"
        /\ \A j \in DOMAIN rows : j > i => ~IsSuccess(rows[j])
=============================================================================
