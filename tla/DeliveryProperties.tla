------------------------- MODULE DeliveryProperties -------------------------
(***************************************************************************)
(* What pushing and undoing promise.                                       *)
(***************************************************************************)
EXTENDS Delivery

\* The destination never holds two copies of a record, whatever pushes and
\* undos overlap and whatever answers are lost: a record is sent under a new
\* generation only when every earlier one is a tombstone.
OneHeldCopy ==
    \A r, s \in records :
        r.key = s.key /\ r.state = "accepted" /\ s.state = "accepted" => r = s

\* A row that says accepted or duplicate is backed by a record the destination
\* stored under that key and generation, also when the id in the row names
\* another record or none: a send is never taken for a delivery.
AcceptanceIsBacked ==
    \A k \in Keys : \A i \in DOMAIN log[k] :
        IsSuccess(log[k][i]) => IsStored(k, log[k][i].gen)

\* What the destination stored it keeps: no late, repeated or stale request
\* deletes a record, changes its payload or revives a tombstone.
HistoryStays ==
    [][\A r \in records : \E s \in records' :
         /\ s.key = r.key /\ s.gen = r.gen /\ s.payload = r.payload
         /\ r.state = "rolled_back" => s.state = "rolled_back"]_vars

\* An undo of the record is under way, or the log cannot tell how one ended.
UndoInDoubt(k) ==
    \/ \E u \in Undoers : target[u].key = k /\ upc[u] \in {"await", "undone", "failed"}
    \/ \E q \in undos : q.key = k
    \/ \E i \in DOMAIN log[k] : log[k][i].outcome = "rollback_failed"

\* What the console calls delivered the destination holds, unless an undo of it
\* is in doubt.
DeliveredIsHeld ==
    \A k \in Keys : Accepted(log[k]) => Held(k) # {} \/ UndoInDoubt(k)

\* The outcome of sending the record is not known for sure: a request is with
\* the destination, a push has attempts to write down, or a row of this
\* generation says that an attempt got no clear answer.
SendInDoubt(k, g) ==
    \/ \E q \in creates : q.key = k
    \/ \E w \in Pushers : current[w] = k /\ pc[w] \in {"send", "await", "reconcile", "record"}
    \/ \E i \in At(log[k], g) : log[k][i].outcome \in Retryables

\* A copy at the destination the log does not account for is one the log is in
\* doubt about: a copy nobody could ever undo does not come out of nowhere.
HeldIsAccountedFor ==
    \A k \in Keys : \A r \in Held(k) :
        \/ Accepted(log[k])
        \/ SendInDoubt(k, r.gen)

\* A permanent refusal is never retried and the attempts of a push are bounded:
\* every attempt but the last had an outcome that calls for another.
RetriesFollowOutcomes ==
    \A w \in Pushers :
        /\ Len(tried[w]) <= MAX_ATTEMPTS
        /\ \A i \in 1 .. Len(tried[w]) - 1 : tried[w][i].outcome \in Retryables

-----------------------------------------------------------------------------
\* What was undone stays undone while sending is paused: "it pauses sending, so
\* the next pass cannot quietly resend what was just undone".  Sending is asked
\* for again by pressing the button only.
PausedSendsNothing ==
    [][ paused /\ (\A w \in Deliverers : pc[w] = "idle") =>
          \A r \in records' \ records :
              r.state = "accepted" => ~\E g \in 1 .. r.gen : Tombstoned(r.key, g) ]_vars

\* "An undo that failed leaves it where it was: the destination still holds it".
FailedUndoLeavesRecord ==
    \A k \in Keys :
        LET n == Len(log[k]) IN
        n > 0 /\ log[k][n].outcome = "rollback_failed" => Held(k) # {}

-----------------------------------------------------------------------------
\* The destination's records refine the promise made to its owner: of every
\* record one copy at a time, numbered without gaps, never again once undone.
Promise == INSTANCE ExactlyOnce WITH
    held <- [k \in Keys |-> {[gen |-> r.gen, payload |-> r.payload] : r \in Held(k)}],
    undone <- [k \in Keys |-> {r.gen : r \in {s \in records :
                                  s.key = k /\ s.state = "rolled_back"}}]
PromiseKept == Promise!Spec
=============================================================================
