--------------------------- MODULE DeliveryProofs ---------------------------
(***************************************************************************)
(* Proofs about Delivery, for every set of keys, payloads and threads, and *)
(* for any number of pushes, rollbacks, faults and restarts.               *)
(***************************************************************************)
EXTENDS DeliveryProperties, SequenceTheorems, TLAPS

\* Where a push thread has a record in hand.
Sending == {"send", "await", "reconcile", "record"}

(***************************************************************************)
(* How the variables of a thread hang together: what it has read when, and *)
(* which request at the destination is its own.                            *)
(***************************************************************************)
PushShape ==
    \A w \in Pushers :
        /\ pc[w] \in {"idle", "arm", "load", "gate", "already"} => todo[w] = {}
        /\ pc[w] \notin Sending => tried[w] = <<>>
        /\ pc[w] = "record" => tried[w] # <<>>
        /\ \A k \in todo[w] : ready[w][k] \in Payloads
        /\ pc[w] \in Sending => ready[w][current[w]] \in Payloads

CreateShape ==
    /\ \A q \in creates : q.by # Nobody =>
         /\ pc[q.by] = "await"
         /\ q.key = current[q.by]
         /\ q.gen = gens[q.by][q.key]
    /\ \A p, q \in creates : p.by # Nobody /\ p.by = q.by => p = q

UndoShape ==
    /\ \A q \in undos : q.by # Nobody =>
         /\ upc[q.by] = "await"
         /\ q.key = target[q.by].key
         /\ q.id = target[q.by].id
    /\ \A p, q \in undos : p.by # Nobody /\ p.by = q.by => p = q

\* The generations written down for a record have a greatest one.
TopGeneration ==
    \A k \in Keys : \E g \in Generations(log[k]) :
        \A h \in Generations(log[k]) : h <= g

TypeInv == TypeOK /\ PushShape /\ CreateShape /\ UndoShape /\ TopGeneration

-----------------------------------------------------------------------------
\* Rows by position, as the provers want it.
LEMMA RowsByPosition ==
    ASSUME NEW rows \in Seq(Rows)
    PROVE  /\ DOMAIN rows = 1 .. Len(rows)
           /\ Len(rows) \in Nat
           /\ \A i \in DOMAIN rows : rows[i] \in Rows
           /\ \A i \in DOMAIN rows : rows[i].gen \in Nat \ {0}
<1>1. DOMAIN rows = 1 .. Len(rows) /\ Len(rows) \in Nat
  BY LenProperties
<1>2. \A i \in DOMAIN rows : rows[i] \in Rows
  BY <1>1, ElementOfSeq
<1>3. \A i \in DOMAIN rows : rows[i].gen \in Nat \ {0}
  BY <1>2 DEF Rows
<1>4. QED
  BY <1>1, <1>2, <1>3

LEMMA AppendByPosition ==
    ASSUME NEW rows \in Seq(Rows), NEW row \in Rows
    PROVE  /\ Append(rows, row) \in Seq(Rows)
           /\ DOMAIN Append(rows, row) = (DOMAIN rows) \union {Len(rows) + 1}
           /\ \A i \in DOMAIN rows : Append(rows, row)[i] = rows[i]
           /\ Append(rows, row)[Len(rows) + 1] = row
BY AppendProperties, RowsByPosition

\* The generation of a record is one that was written down, or the first.
LEMMA GenerationIsTop ==
    ASSUME NEW rows \in Seq(Rows),
           \E g \in Generations(rows) : \A h \in Generations(rows) : h <= g
    PROVE  /\ Generation(rows) \in Generations(rows)
           /\ Generation(rows) \in Nat \ {0}
           /\ \A h \in Generations(rows) : h <= Generation(rows)
<1>1. Generations(rows) \subseteq Nat \ {0}
  BY RowsByPosition DEF Generations
<1>2. \E g \in Generations(rows) : \A h \in Generations(rows) : g >= h
  BY <1>1
<1>3. QED
  BY <1>1, <1>2 DEF Generation, Max

\* One more row keeps a greatest generation.
LEMMA AppendKeepsTop ==
    ASSUME NEW rows \in Seq(Rows), NEW row \in Rows,
           \E g \in Generations(rows) : \A h \in Generations(rows) : h <= g
    PROVE  \E g \in Generations(Append(rows, row)) :
               \A h \in Generations(Append(rows, row)) : h <= g
<1>1. Generations(Append(rows, row)) = Generations(rows) \union {row.gen}
  BY AppendByPosition DEF Generations
<1>2. Generations(rows) \subseteq Nat /\ row.gen \in Nat
  <2>1. row.gen \in Nat
    BY DEF Rows
  <2>2. QED
    BY <2>1, RowsByPosition DEF Generations
<1>3. PICK g \in Generations(rows) : \A h \in Generations(rows) : h <= g
  OBVIOUS
<1>4. CASE row.gen <= g
  BY <1>1, <1>2, <1>3, <1>4
<1>5. CASE ~(row.gen <= g)
  BY <1>1, <1>2, <1>3, <1>5
<1>6. QED
  BY <1>4, <1>5

\* What Init gives the threads is of its type.
LEMMA AnyKeyType == AnyKey \in Keys
BY KeysAssumption DEF AnyKey

LEMMA InitTypeInv == Init => TypeInv
<1>1. SUFFICES ASSUME Init PROVE TypeInv
  OBVIOUS
<1>2. TypeOK
  <2>. USE <1>1, AnyKeyType DEF Init, TypeOK
  <2>1. DestinationTypeOK
    BY DEF DestinationInit, DestinationTypeOK
  <2>2. log \in [Keys -> Seq(Rows)] /\ tried \in [Pushers -> Seq(Attempts)]
    BY EmptySeq
  <2>3. pc \in [Pushers -> PushSteps] /\ upc \in [Undoers -> UndoSteps]
    BY DEF PushSteps, UndoSteps
  <2>4. ready \in [Pushers -> Contents] /\ gens \in [Pushers -> [Keys -> Nat \ {0}]]
    BY DEF Contents, NothingReady, FirstGenerations
  <2>5. target \in [Undoers -> Targets]
    BY DEF Targets, NoTarget, Ids, NoId
  <2>6. seen \in [Undoers -> [Keys -> Nat]] /\ targets \in [Undoers -> SUBSET Targets]
    OBVIOUS
  <2>7. QED
    BY <2>1, <2>2, <2>3, <2>4, <2>5, <2>6
<1>3. PushShape
  BY <1>1 DEF Init, PushShape, Sending
<1>4. CreateShape /\ UndoShape
  BY <1>1 DEF Init, CreateShape, UndoShape
<1>5. TopGeneration
  <2>1. SUFFICES ASSUME NEW k \in Keys
                 PROVE \E g \in Generations(log[k]) : \A h \in Generations(log[k]) : h <= g
    BY DEF TopGeneration
  <2>2. Generations(log[k]) = {1}
    BY <1>1 DEF Init, Generations
  <2>3. QED BY <2>2
<1>6. QED
  BY <1>2, <1>3, <1>4, <1>5 DEF TypeInv

-----------------------------------------------------------------------------
(***************************************************************************)
(* Type correctness.                                                       *)
(***************************************************************************)

\* Requests stay requests when their caller gives up on them.
LEMMA AbandonedCreateType ==
    \A q \in CreateRequests : [q EXCEPT !.by = Nobody] \in CreateRequests
BY DEF CreateRequests

LEMMA AbandonedUndoType ==
    \A q \in UndoRequests : [q EXCEPT !.by = Nobody] \in UndoRequests
BY DEF UndoRequests

\* An attempt that ends is added to the attempts of its thread.
LEMMA ConcludesType ==
    ASSUME TypeOK, NEW w \in Pushers, NEW outcome \in SendOutcomes, NEW id \in Ids,
           Concludes(w, outcome, id)
    PROVE  pc' \in [Pushers -> PushSteps] /\ tried' \in [Pushers -> Seq(Attempts)]
<1>1. [outcome |-> outcome, id |-> id] \in Attempts
  BY DEF Attempts
<1>2. Append(tried[w], [outcome |-> outcome, id |-> id]) \in Seq(Attempts)
  BY <1>1, AppendProperties DEF TypeOK
<1>3. AfterAttempt(outcome, Len(tried[w]) + 1) \in PushSteps
  BY DEF AfterAttempt, PushSteps
<1>4. tried' \in [Pushers -> Seq(Attempts)]
  BY <1>2 DEF Concludes, TypeOK
<1>5. pc' \in [Pushers -> PushSteps]
  BY <1>3 DEF Concludes, TypeOK
<1>6. QED
  BY <1>4, <1>5

\* The client knows what to make of every answer the destination gives.
LEMMA ClassifyType ==
    ASSUME NEW status \in Statuses \union {"duplicate", "conflict"}
    PROVE  Classify(status) \in SendOutcomes
BY DEF Statuses, Classify, SendOutcomes, Successes, Refusals, Retryables

LEMMA HearsType ==
    ASSUME TypeOK, NEW q \in creates, NEW id \in Ids,
           NEW status \in Statuses \union {"duplicate", "conflict"},
           Hears(q, Answer(status, id))
    PROVE  pc' \in [Pushers -> PushSteps] /\ tried' \in [Pushers -> Seq(Attempts)]
<1>1. CASE q.by = Nobody
  BY <1>1 DEF Hears, TypeOK
<1>2. CASE q.by # Nobody
  <2>1. q.by \in Pushers
    BY <1>2 DEF TypeOK, CreateRequests
  <2>2. Concludes(q.by, Classify(status), id)
    BY <1>2 DEF Hears, Answer
  <2>3. QED
    BY <2>1, <2>2, ClassifyType, ConcludesType
<1>3. QED
  BY <1>1, <1>2

\* What the handlers make of the destination's state.
LEMMA StoreType ==
    ASSUME TypeOK, NEW q \in creates, Store(q)
    PROVE  records' \subseteq StoredRecords
BY DEF TypeOK, DestinationTypeOK, Store, StoredRecords, CreateRequests

LEMMA HandleNewType ==
    ASSUME TypeOK, NEW q \in creates, NEW answer, HandleNew(q, answer)
    PROVE  DestinationTypeOK'
<1>1. records' \subseteq StoredRecords
  BY StoreType DEF HandleNew, FailOnPurpose, ValidateAndStore, TypeOK, DestinationTypeOK
<1>2. failure' \in {NoFailure} \union [mode : FailureModes, remaining : Nat \ {0}]
  <2>1. CASE FailOnPurpose(q, answer)
    <3>1. failure \in [mode : FailureModes, remaining : Nat \ {0}]
      BY <2>1 DEF FailOnPurpose, TypeOK, DestinationTypeOK, NoFailure
    <3>2. failure.remaining # 1
             => [failure EXCEPT !.remaining = @ - 1]
                  \in [mode : FailureModes, remaining : Nat \ {0}]
      BY <3>1
    <3>3. QED
      BY <2>1, <3>2 DEF FailOnPurpose
  <2>2. CASE ValidateAndStore(q, answer)
    BY <2>2 DEF ValidateAndStore, TypeOK, DestinationTypeOK
  <2>3. QED
    BY <2>1, <2>2 DEF HandleNew
<1>3. QED
  BY <1>1, <1>2 DEF DestinationTypeOK

LEMMA RollbackType ==
    ASSUME TypeOK, NEW k, NEW id, NEW ok, Rollback(k, id, ok)
    PROVE  DestinationTypeOK'
<1>1. \A r \in StoredRecords : [r EXCEPT !.state = "rolled_back"] \in StoredRecords
  BY DEF StoredRecords
<1>2. QED
  BY <1>1 DEF TypeOK, DestinationTypeOK, Rollback

LEMMA TypeOKStep == TypeInv /\ [Next]_vars => TypeOK'
<1>. SUFFICES ASSUME TypeInv, [Next]_vars PROVE TypeOK'
  OBVIOUS
<1>1. ASSUME NEW w \in Pushers, Arm(w) PROVE TypeOK'
  <2>1. pc[w] = "arm" => drill[w] \in FailureModes \union {"none"}
    BY DEF TypeInv, TypeOK, DestinationTypeOK
  <2>2. failure' \in {NoFailure} \union [mode : FailureModes, remaining : Nat \ {0}]
    BY <1>1, <2>1 DEF Arm, Step, SetFailure, DRILL_REQUESTS, TypeInv, TypeOK, DestinationTypeOK
  <2>3. QED
    BY <1>1, <2>2 DEF Arm, Step, destinationVars, apiVars, pushVars, undoVars, PushSteps, TypeInv, TypeOK, DestinationTypeOK
<1>2. ASSUME NEW w \in Pushers, Load(w) PROVE TypeOK'
  BY <1>2 DEF Load, Step, UndoStep, SetFailure, Leave, destinationVars, apiVars, pushVars, undoVars,
     PushSteps, UndoSteps, TypeInv, TypeOK, DestinationTypeOK
<1>3. ASSUME NEW w \in Pushers, Gate(w) PROVE TypeOK'
  BY <1>3 DEF Gate, Step, UndoStep, SetFailure, Leave, destinationVars, apiVars, pushVars, undoVars,
     PushSteps, UndoSteps, TypeInv, TypeOK, DestinationTypeOK
<1>4. ASSUME NEW w \in Pushers, ReadAlready(w) PROVE TypeOK'
  BY <1>4 DEF ReadAlready, Step, UndoStep, SetFailure, Leave, destinationVars, apiVars, pushVars, undoVars,
     PushSteps, UndoSteps, TypeInv, TypeOK, DestinationTypeOK
<1>5. ASSUME NEW w \in Pushers, ReadGenerations(w) PROVE TypeOK'
  <2>1. [k \in Keys |-> Generation(log[k])] \in [Keys -> Nat \ {0}]
    BY GenerationIsTop DEF TypeInv, TypeOK, TopGeneration
  <2>2. gens' \in [Pushers -> [Keys -> Nat \ {0}]]
    BY <1>5, <2>1 DEF ReadGenerations, TypeInv, TypeOK, DestinationTypeOK
  <2>3. QED
    BY <1>5, <2>2 DEF ReadGenerations, Step, destinationVars, apiVars, pushVars, undoVars, PushSteps, TypeInv, TypeOK, DestinationTypeOK
<1>6. ASSUME NEW w \in Pushers, NEW k \in Keys, Pick(w, k) PROVE TypeOK'
  BY <1>6 DEF Pick, Step, UndoStep, SetFailure, Leave, destinationVars, apiVars, pushVars, undoVars,
     PushSteps, UndoSteps, TypeInv, TypeOK, DestinationTypeOK
<1>7. ASSUME NEW w \in Pushers, NEW disarmed \in BOOLEAN, Finish(w, disarmed) PROVE TypeOK'
  BY <1>7 DEF Finish, Step, UndoStep, SetFailure, Leave, destinationVars, apiVars, pushVars, undoVars,
     PushSteps, UndoSteps, TypeInv, TypeOK, DestinationTypeOK
<1>8. ASSUME NEW w \in Pushers, Send(w) PROVE TypeOK'
  <2>1. pc[w] = "send"
    BY <1>8 DEF Send, Step
  <2>2. ready[w][current[w]] \in Payloads
    BY <2>1 DEF TypeInv, PushShape, Sending
  <2>3. [by |-> w, key |-> current[w], gen |-> gens[w][current[w]],
         payload |-> ready[w][current[w]], isNew |-> FALSE] \in CreateRequests
    BY <2>2 DEF CreateRequests, TypeInv, TypeOK, DestinationTypeOK
  <2>4. creates' \subseteq CreateRequests
    BY <1>8, <2>3 DEF Send, TypeInv, TypeOK, DestinationTypeOK
  <2>5. QED
    BY <1>8, <2>4 DEF Send, Step, destinationVars, apiVars, pushVars, undoVars, PushSteps, TypeInv, TypeOK, DestinationTypeOK
<1>9. ASSUME NEW w \in Pushers, NEW r \in records, ReconcileFinds(w, r.gen) PROVE TypeOK'
  <2>1. [outcome |-> "duplicate", id |-> r.gen] \in Attempts
    BY DEF Attempts, Ids, SendOutcomes, Successes, StoredRecords, TypeInv, TypeOK, DestinationTypeOK
  <2>2. Append(tried[w], [outcome |-> "duplicate", id |-> r.gen]) \in Seq(Attempts)
    BY <2>1, AppendProperties DEF TypeInv, TypeOK, DestinationTypeOK
  <2>3. tried' \in [Pushers -> Seq(Attempts)]
    BY <1>9, <2>2 DEF ReconcileFinds, TypeInv, TypeOK, DestinationTypeOK
  <2>4. QED
    BY <1>9, <2>3 DEF ReconcileFinds, destinationVars, apiVars, pushVars, undoVars, PushSteps, TypeInv, TypeOK, DestinationTypeOK
<1>10. ASSUME NEW w \in Pushers, ReconcileMisses(w) PROVE TypeOK'
  BY <1>10 DEF ReconcileMisses, Step, UndoStep, SetFailure, Leave, destinationVars, apiVars, pushVars, undoVars,
     PushSteps, UndoSteps, TypeInv, TypeOK, DestinationTypeOK
<1>11. ASSUME NEW w \in Pushers, ReconcileFails(w) PROVE TypeOK'
  BY <1>11 DEF ReconcileFails, Step, UndoStep, SetFailure, Leave, destinationVars, apiVars, pushVars, undoVars,
     PushSteps, UndoSteps, TypeInv, TypeOK, DestinationTypeOK
<1>12. ASSUME NEW w \in Pushers, RecordAttempt(w) PROVE TypeOK'
  <2>1. PICK k \in Keys : k = current[w]
    BY DEF TypeInv, TypeOK, DestinationTypeOK
  <2>2. tried[w] \in Seq(Attempts) /\ tried[w] # <<>>
    BY <1>12 DEF RecordAttempt, Step, PushShape, TypeInv, TypeOK, DestinationTypeOK
  <2>3. Head(tried[w]) \in Attempts /\ Tail(tried[w]) \in Seq(Attempts)
    BY <2>2, HeadTailProperties
  <2>4. [gen |-> gens[w][k], outcome |-> Head(tried[w]).outcome,
         id |-> Head(tried[w]).id] \in Rows
    BY <2>3 DEF Rows, Attempts, TypeInv, TypeOK, DestinationTypeOK
  <2>5. Append(log[k], [gen |-> gens[w][k], outcome |-> Head(tried[w]).outcome,
                        id |-> Head(tried[w]).id]) \in Seq(Rows)
    BY <2>4, AppendProperties DEF TypeInv, TypeOK, DestinationTypeOK
  <2>6. log' \in [Keys -> Seq(Rows)]
    BY <1>12, <2>1, <2>5 DEF RecordAttempt, TypeInv, TypeOK, DestinationTypeOK
  <2>7. tried' \in [Pushers -> Seq(Attempts)]
    BY <1>12, <2>3 DEF RecordAttempt, TypeInv, TypeOK, DestinationTypeOK
  <2>8. QED
    BY <1>12, <2>6, <2>7 DEF RecordAttempt, Step, destinationVars, apiVars, pushVars, undoVars, PushSteps, TypeInv, TypeOK, DestinationTypeOK
<1>13. ASSUME NEW w \in Deliverers, NEW mode \in FailureModes \union {"none"}, NEW keep \in BOOLEAN, Press(w, mode, keep) PROVE TypeOK'
  BY <1>13 DEF Press, Step, UndoStep, SetFailure, Leave, destinationVars, apiVars, pushVars, undoVars,
     PushSteps, UndoSteps, TypeInv, TypeOK, DestinationTypeOK
<1>14. ASSUME NEW w \in Jobs, JobReady(w) PROVE TypeOK'
  BY <1>14 DEF JobReady, Step, UndoStep, SetFailure, Leave, destinationVars, apiVars, pushVars, undoVars,
     PushSteps, UndoSteps, TypeInv, TypeOK, DestinationTypeOK
<1>15. ASSUME NEW w \in Pushers, NEW disarmed \in BOOLEAN, Unreachable(w, disarmed) PROVE TypeOK'
  BY <1>15 DEF Unreachable, Step, UndoStep, SetFailure, Leave, destinationVars, apiVars, pushVars, undoVars,
     PushSteps, UndoSteps, TypeInv, TypeOK, DestinationTypeOK
<1>16. ASSUME NEW w \in Pushers, NEW outcome \in Retryables, NoAnswer(w, outcome) PROVE TypeOK'
  <2>1. pc' \in [Pushers -> PushSteps] /\ tried' \in [Pushers -> Seq(Attempts)]
    BY <1>16, ConcludesType DEF NoAnswer, SendOutcomes, Ids, NoId, TypeInv
  <2>2. creates' \subseteq CreateRequests
    BY <1>16, AbandonedCreateType DEF NoAnswer, TypeInv, TypeOK, DestinationTypeOK
  <2>3. QED
    BY <1>16, <2>1, <2>2 DEF NoAnswer, destinationVars, apiVars, pushVars, undoVars, TypeInv, TypeOK, DestinationTypeOK
<1>17. ASSUME NEW q \in creates, DestinationKnows(q) PROVE TypeOK'
  <2>1. PICK status \in {"duplicate", "conflict"}, id \in {NoId, q.gen} :
          Hears(q, Answer(status, id))
    BY <1>17 DEF DestinationKnows
  <2>2. id \in Ids
    BY <2>1 DEF Ids, NoId, CreateRequests, TypeInv, TypeOK, DestinationTypeOK
  <2>3. pc' \in [Pushers -> PushSteps] /\ tried' \in [Pushers -> Seq(Attempts)]
    BY <2>1, <2>2, HearsType DEF TypeInv
  <2>4. QED
    BY <1>17, <2>3 DEF DestinationKnows, destinationVars, apiVars, pushVars, undoVars, TypeInv, TypeOK, DestinationTypeOK
<1>18. ASSUME NEW q \in creates, DestinationMisses(q) PROVE TypeOK'
  <2>1. [q EXCEPT !.isNew = TRUE] \in CreateRequests
    BY DEF CreateRequests, TypeInv, TypeOK, DestinationTypeOK
  <2>2. creates' \subseteq CreateRequests
    BY <1>18, <2>1 DEF DestinationMisses, TypeInv, TypeOK, DestinationTypeOK
  <2>3. QED
    BY <1>18, <2>2 DEF DestinationMisses, destinationVars, apiVars, pushVars, undoVars, TypeInv, TypeOK, DestinationTypeOK
<1>19. ASSUME NEW q \in creates, DestinationHandles(q) PROVE TypeOK'
  <2>1. PICK status \in Statuses, id \in {NoId, Phantom, q.gen} :
          HandleNew(q, Answer(status, id)) /\ Hears(q, Answer(status, id))
    BY <1>19 DEF DestinationHandles
  <2>2. id \in Ids
    BY <2>1 DEF Ids, NoId, CreateRequests, TypeInv, TypeOK, DestinationTypeOK
  <2>3. pc' \in [Pushers -> PushSteps] /\ tried' \in [Pushers -> Seq(Attempts)]
    BY <2>1, <2>2, HearsType DEF TypeInv
  <2>4. DestinationTypeOK'
    BY <2>1, HandleNewType DEF TypeInv
  <2>5. creates' \subseteq CreateRequests
    BY <1>19 DEF DestinationHandles, TypeInv, TypeOK, DestinationTypeOK
  <2>6. QED
    BY <1>19, <2>3, <2>4, <2>5 DEF DestinationHandles, destinationVars, apiVars, pushVars, undoVars, TypeInv, TypeOK
<1>20. ASSUME NEW q \in undos, DestinationUndoes(q) PROVE TypeOK'
  <2>1. DestinationTypeOK'
    BY <1>20, RollbackType DEF DestinationUndoes, TypeInv
  <2>2. q.by # Nobody => q.by \in Undoers
    BY DEF UndoRequests, TypeInv, TypeOK, DestinationTypeOK
  <2>3. upc' \in [Undoers -> UndoSteps]
    BY <1>20, <2>2 DEF DestinationUndoes, UndoSteps, TypeInv, TypeOK, DestinationTypeOK
  <2>4. undos' \subseteq UndoRequests
    BY <1>20 DEF DestinationUndoes, TypeInv, TypeOK, DestinationTypeOK
  <2>5. QED
    BY <1>20, <2>1, <2>3, <2>4 DEF DestinationUndoes, destinationVars, apiVars, pushVars, undoVars, TypeInv, TypeOK
<1>21. ASSUME NEW u \in Undoers, BeginUndo(u) PROVE TypeOK'
  <2>1. \A k \in Keys : AcceptedGeneration(log[k]) \in Nat
    BY GenerationIsTop DEF AcceptedGeneration, TypeInv, TypeOK, TopGeneration
  <2>2. seen' \in [Undoers -> [Keys -> Nat]]
    BY <1>21, <2>1 DEF BeginUndo, TypeInv, TypeOK, DestinationTypeOK
  <2>3. QED
    BY <1>21, <2>2 DEF BeginUndo, UndoStep, destinationVars, apiVars, pushVars, undoVars, UndoSteps, TypeInv, TypeOK, DestinationTypeOK
<1>22. ASSUME NEW u \in Undoers, ReadTargets(u) PROVE TypeOK'
  <2>1. ASSUME NEW k \in Keys, NEW i \in DOMAIN log[k]
        PROVE  [key |-> k, gen |-> log[k][i].gen, id |-> log[k][i].id] \in Targets
    <3>1. log[k][i] \in Rows
      BY <2>1, RowsByPosition DEF TypeInv, TypeOK, DestinationTypeOK
    <3>2. QED
      BY <3>1 DEF Rows, Targets
  <2>2. targets' \in [Undoers -> SUBSET Targets]
    BY <1>22, <2>1 DEF ReadTargets, TypeInv, TypeOK, DestinationTypeOK
  <2>3. QED
    BY <1>22, <2>2 DEF ReadTargets, UndoStep, destinationVars, apiVars, pushVars, undoVars, UndoSteps, TypeInv, TypeOK, DestinationTypeOK
<1>23. ASSUME NEW u \in Undoers, NEW t \in targets[u], AskUndo(u, t) PROVE TypeOK'
  <2>1. t \in Targets
    BY DEF TypeInv, TypeOK, DestinationTypeOK
  <2>2. [by |-> u, key |-> t.key, id |-> t.id] \in UndoRequests
    BY <2>1 DEF Targets, UndoRequests
  <2>3. undos' \subseteq UndoRequests
    BY <1>23, <2>2 DEF AskUndo, TypeInv, TypeOK, DestinationTypeOK
  <2>4. target' \in [Undoers -> Targets] /\ targets' \in [Undoers -> SUBSET Targets]
    BY <1>23, <2>1 DEF AskUndo, TypeInv, TypeOK, DestinationTypeOK
  <2>5. QED
    BY <1>23, <2>3, <2>4 DEF AskUndo, UndoStep, destinationVars, apiVars, pushVars, undoVars, UndoSteps, TypeInv, TypeOK, DestinationTypeOK
<1>24. ASSUME NEW u \in Undoers, NoUndoAnswer(u) PROVE TypeOK'
  <2>1. undos' \subseteq UndoRequests
    BY <1>24, AbandonedUndoType DEF NoUndoAnswer, TypeInv, TypeOK, DestinationTypeOK
  <2>2. QED
    BY <1>24, <2>1 DEF NoUndoAnswer, UndoStep, destinationVars, apiVars, pushVars, undoVars, UndoSteps, TypeInv, TypeOK, DestinationTypeOK
<1>25. ASSUME NEW u \in Undoers, RecordUndo(u) PROVE TypeOK'
  <2>1. target[u] \in Targets
    BY DEF TypeInv, TypeOK, DestinationTypeOK
  <2>2. UndoRow(target[u], upc[u] = "undone") \in Rows
    BY <2>1 DEF UndoRow, Targets, Rows, UndoOutcomes
  <2>3. Append(log[target[u].key], UndoRow(target[u], upc[u] = "undone")) \in Seq(Rows)
    BY <2>1, <2>2, AppendProperties DEF Targets, TypeInv, TypeOK, DestinationTypeOK
  <2>4. log' \in [Keys -> Seq(Rows)]
    BY <1>25, <2>3 DEF RecordUndo, TypeInv, TypeOK, DestinationTypeOK
  <2>5. QED
    BY <1>25, <2>4 DEF RecordUndo, destinationVars, apiVars, pushVars, undoVars, UndoSteps, TypeInv, TypeOK, DestinationTypeOK
<1>26. ASSUME NEW u \in Undoers, PauseSending(u) PROVE TypeOK'
  BY <1>26 DEF PauseSending, Step, UndoStep, SetFailure, Leave, destinationVars, apiVars, pushVars, undoVars,
     PushSteps, UndoSteps, TypeInv, TypeOK, DestinationTypeOK
<1>27. CASE ResultChanges
  BY <1>27 DEF ResultChanges, Step, UndoStep, SetFailure, Leave, destinationVars, apiVars, pushVars, undoVars,
     PushSteps, UndoSteps, TypeInv, TypeOK, DestinationTypeOK
<1>28. CASE ApiRestarts
  <2>1. creates' \subseteq CreateRequests
    BY <1>28, AbandonedCreateType DEF ApiRestarts, TypeInv, TypeOK, DestinationTypeOK
  <2>2. undos' \subseteq UndoRequests
    BY <1>28, AbandonedUndoType DEF ApiRestarts, TypeInv, TypeOK, DestinationTypeOK
  <2>3. tried' \in [Pushers -> Seq(Attempts)]
    BY <1>28, EmptySeq DEF ApiRestarts
  <2>4. QED
    BY <1>28, <2>1, <2>2, <2>3 DEF ApiRestarts, destinationVars, apiVars, pushVars, undoVars, PushSteps, UndoSteps, TypeInv, TypeOK, DestinationTypeOK
<1>29. CASE DestinationRestarts
  BY <1>29 DEF DestinationRestarts, Step, UndoStep, SetFailure, Leave, destinationVars, apiVars, pushVars, undoVars,
     PushSteps, UndoSteps, TypeInv, TypeOK, DestinationTypeOK
<1>30. CASE UNCHANGED vars
  BY <1>30 DEF vars, TypeInv, TypeOK, DestinationTypeOK
<1>31. QED
  BY <1>1, <1>2, <1>3, <1>4, <1>5, <1>6, <1>7, <1>8, <1>9, <1>10, <1>11, <1>12, <1>13, <1>14, <1>15, <1>16, <1>17, <1>18, <1>19, <1>20, <1>21, <1>22, <1>23, <1>24, <1>25, <1>26, <1>27, <1>28, <1>29, <1>30
     DEF Next, PusherStep, UndoerStep, DestinationStep, RequestStep, FaultStep, Pushers

-----------------------------------------------------------------------------
(***************************************************************************)
(* The shape of what the threads hold.                                     *)
(***************************************************************************)
LEMMA EmptyByLength ==
    ASSUME NEW S, NEW seq \in Seq(S)
    PROVE  seq = <<>> <=> Len(seq) = 0
BY EmptySeq, LenProperties

LEMMA AppendNotEmpty ==
    ASSUME NEW S, NEW seq \in Seq(S), NEW e \in S
    PROVE  Append(seq, e) # <<>>
<1>1. Append(seq, e) \in Seq(S) /\ Len(Append(seq, e)) = Len(seq) + 1 /\ Len(seq) \in Nat
  BY AppendProperties, LenProperties
<1>2. QED
  BY <1>1, EmptyByLength
\* What the end of an attempt leaves behind has the shape of a push.
LEMMA ConcludesShape ==
    ASSUME TypeOK, PushShape, NEW w \in Pushers, NEW outcome \in SendOutcomes, NEW id \in Ids,
           pc[w] \in {"await", "reconcile"},
           Concludes(w, outcome, id), UNCHANGED <<todo, ready, current>>
    PROVE  PushShape'
<1>1. AfterAttempt(outcome, Len(tried[w]) + 1) \in Sending
  BY DEF AfterAttempt, Sending
<1>2. Append(tried[w], [outcome |-> outcome, id |-> id]) # <<>>
  <2>1. [outcome |-> outcome, id |-> id] \in Attempts
    BY DEF Attempts
  <2>2. QED
    BY <2>1, AppendNotEmpty DEF TypeOK
<1>3. QED
  BY <1>1, <1>2 DEF Concludes, PushShape, TypeOK, Sending

LEMMA HearsShape ==
    ASSUME TypeOK, PushShape, CreateShape, NEW q \in creates, NEW id \in Ids,
           NEW status \in Statuses \union {"duplicate", "conflict"},
           Hears(q, Answer(status, id)), UNCHANGED <<todo, ready, current>>
    PROVE  PushShape'
<1>1. CASE q.by = Nobody
  BY <1>1 DEF Hears, PushShape
<1>2. CASE q.by # Nobody
  <2>1. q.by \in Pushers /\ pc[q.by] = "await"
    BY <1>2 DEF TypeOK, CreateRequests, CreateShape
  <2>2. Concludes(q.by, Classify(status), id)
    BY <1>2 DEF Hears, Answer
  <2>3. QED
    BY <2>1, <2>2, ClassifyType, ConcludesShape
<1>3. QED
  BY <1>1, <1>2

LEMMA PushShapeStep == TypeInv /\ [Next]_vars => PushShape'
<1>. SUFFICES ASSUME TypeInv, [Next]_vars PROVE PushShape'
  OBVIOUS
<1>1. ASSUME NEW w \in Pushers, Arm(w) PROVE PushShape'
  BY <1>1 DEF Arm, Step, destinationVars, apiVars, pushVars, undoVars, TypeOK, TypeInv, PushShape, Sending
<1>2. ASSUME NEW w \in Pushers, Load(w) PROVE PushShape'
  <2>1. todo[w] = {} /\ tried[w] = <<>>
    BY <1>2 DEF Load, Step, Sending, TypeInv, PushShape, Sending
  <2>2. QED
    BY <1>2, <2>1 DEF Load, Step, TypeOK, Sending, pushVars, TypeInv, PushShape, Sending
<1>3. ASSUME NEW w \in Pushers, Gate(w) PROVE PushShape'
  BY <1>3 DEF Gate, Step, destinationVars, apiVars, pushVars, undoVars, TypeOK, TypeInv, PushShape, Sending
<1>4. ASSUME NEW w \in Pushers, ReadAlready(w) PROVE PushShape'
  <2>1. \A k \in Keys : ready[w][k] # NotReady => ready[w][k] \in Payloads
    BY DEF TypeOK, Contents, TypeInv, PushShape, Sending
  <2>2. QED
    BY <1>4, <2>1 DEF ReadAlready, Step, TypeOK, Sending, TypeInv, PushShape, Sending
<1>5. ASSUME NEW w \in Pushers, ReadGenerations(w) PROVE PushShape'
  BY <1>5 DEF ReadGenerations, Step, destinationVars, apiVars, pushVars, undoVars, TypeOK, TypeInv, PushShape, Sending
<1>6. ASSUME NEW w \in Pushers, NEW k \in Keys, Pick(w, k) PROVE PushShape'
  BY <1>6 DEF Pick, Step, destinationVars, apiVars, pushVars, undoVars, TypeOK, TypeInv, PushShape, Sending
<1>7. ASSUME NEW w \in Pushers, NEW disarmed \in BOOLEAN, Finish(w, disarmed) PROVE PushShape'
  BY <1>7 DEF Finish, Step, destinationVars, apiVars, pushVars, undoVars, TypeOK, TypeInv, PushShape, Sending
<1>8. ASSUME NEW w \in Pushers, Send(w) PROVE PushShape'
  BY <1>8 DEF Send, Step, destinationVars, apiVars, pushVars, undoVars, TypeOK, TypeInv, PushShape, Sending
<1>9. ASSUME NEW w \in Pushers, NEW r \in records, ReconcileFinds(w, r.gen) PROVE PushShape'
  <2>1. r.gen \in Nat
    BY DEF TypeOK, DestinationTypeOK, StoredRecords, TypeInv, PushShape, Sending
  <2>2. [outcome |-> "duplicate", id |-> r.gen] \in Attempts
    BY <2>1 DEF Attempts, Ids, SendOutcomes, Successes, TypeInv, PushShape, Sending
  <2>3. Append(tried[w], [outcome |-> "duplicate", id |-> r.gen]) # <<>>
    BY <2>2, AppendNotEmpty DEF TypeOK, TypeInv, PushShape, Sending
  <2>4. QED
    BY <1>9, <2>3 DEF ReconcileFinds, TypeOK, Sending, TypeInv, PushShape, Sending
<1>10. ASSUME NEW w \in Pushers, ReconcileMisses(w) PROVE PushShape'
  BY <1>10 DEF ReconcileMisses, Step, destinationVars, apiVars, pushVars, undoVars, TypeOK, TypeInv, PushShape, Sending
<1>11. ASSUME NEW w \in Pushers, ReconcileFails(w) PROVE PushShape'
  BY <1>11 DEF ReconcileFails, Step, destinationVars, apiVars, pushVars, undoVars, TypeOK, TypeInv, PushShape, Sending
<1>12. ASSUME NEW w \in Pushers, RecordAttempt(w) PROVE PushShape'
  <2>1. tried[w] \in Seq(Attempts) /\ tried[w] # <<>>
    BY <1>12 DEF RecordAttempt, Step, TypeOK, TypeInv, PushShape, Sending
  <2>2. Len(tried[w]) \in Nat /\ Len(Tail(tried[w])) = Len(tried[w]) - 1
        /\ Tail(tried[w]) \in Seq(Attempts)
    BY <2>1, HeadTailProperties, LenProperties
  <2>3. Tail(tried[w]) = <<>> <=> Len(Tail(tried[w])) = 0
    BY <2>2, EmptyByLength
  <2>4. Len(tried[w]) = 1 <=> Tail(tried[w]) = <<>>
    BY <2>2, <2>3
  <2>5. QED
    BY <1>12, <2>4 DEF RecordAttempt, Step, TypeOK, Sending, TypeInv, PushShape, Sending
<1>13. ASSUME NEW w \in Deliverers, NEW mode \in FailureModes \union {"none"}, NEW keep \in BOOLEAN, Press(w, mode, keep) PROVE PushShape'
  BY <1>13 DEF Press, Step, destinationVars, apiVars, pushVars, undoVars, TypeOK, TypeInv, PushShape, Sending
<1>14. ASSUME NEW w \in Jobs, JobReady(w) PROVE PushShape'
  BY <1>14 DEF JobReady, Step, destinationVars, apiVars, pushVars, undoVars, TypeOK, TypeInv, PushShape, Sending
<1>15. ASSUME NEW w \in Pushers, NEW disarmed \in BOOLEAN, Unreachable(w, disarmed) PROVE PushShape'
  BY <1>15 DEF Unreachable, Step, destinationVars, apiVars, pushVars, undoVars, TypeOK, TypeInv, PushShape, Sending
<1>16. ASSUME NEW w \in Pushers, NEW outcome \in Retryables, NoAnswer(w, outcome) PROVE PushShape'
  BY <1>16, ConcludesShape DEF NoAnswer, SendOutcomes, Ids, NoId, TypeInv, PushShape, Sending
<1>17. ASSUME NEW q \in creates, DestinationKnows(q) PROVE PushShape'
  <2>1. PICK status \in {"duplicate", "conflict"}, id \in {NoId, q.gen} :
          Hears(q, Answer(status, id))
    BY <1>17 DEF DestinationKnows, TypeInv, PushShape, Sending
  <2>2. id \in Ids
    BY <2>1 DEF Ids, NoId, CreateRequests, TypeOK, TypeInv, PushShape, Sending
  <2>3. QED
    BY <1>17, <2>1, <2>2, HearsShape DEF DestinationKnows, TypeInv, PushShape, Sending
<1>18. ASSUME NEW q \in creates, DestinationMisses(q) PROVE PushShape'
  BY <1>18 DEF DestinationMisses, pushVars, TypeInv, PushShape, Sending
<1>19. ASSUME NEW q \in creates, DestinationHandles(q) PROVE PushShape'
  <2>1. PICK status \in Statuses, id \in {NoId, Phantom, q.gen} :
          Hears(q, Answer(status, id))
    BY <1>19 DEF DestinationHandles, TypeInv, PushShape, Sending
  <2>2. id \in Ids
    BY <2>1 DEF Ids, NoId, CreateRequests, TypeOK, TypeInv, PushShape, Sending
  <2>3. QED
    BY <1>19, <2>1, <2>2, HearsShape DEF DestinationHandles, TypeInv, PushShape, Sending
<1>20. ASSUME NEW q \in undos, DestinationUndoes(q) PROVE PushShape'
  BY <1>20 DEF DestinationUndoes, pushVars, TypeInv, PushShape, Sending
<1>21. ASSUME NEW u \in Undoers, BeginUndo(u) PROVE PushShape'
  BY <1>21 DEF BeginUndo, pushVars, TypeInv, PushShape, Sending
<1>22. ASSUME NEW u \in Undoers, ReadTargets(u) PROVE PushShape'
  BY <1>22 DEF ReadTargets, pushVars, TypeInv, PushShape, Sending
<1>23. ASSUME NEW u \in Undoers, NEW t \in targets[u], AskUndo(u, t) PROVE PushShape'
  BY <1>23 DEF AskUndo, pushVars, TypeInv, PushShape, Sending
<1>24. ASSUME NEW u \in Undoers, NoUndoAnswer(u) PROVE PushShape'
  BY <1>24 DEF NoUndoAnswer, pushVars, TypeInv, PushShape, Sending
<1>25. ASSUME NEW u \in Undoers, RecordUndo(u) PROVE PushShape'
  BY <1>25 DEF RecordUndo, pushVars, TypeInv, PushShape, Sending
<1>26. ASSUME NEW u \in Undoers, PauseSending(u) PROVE PushShape'
  BY <1>26 DEF PauseSending, pushVars, TypeInv, PushShape, Sending
<1>27. CASE ResultChanges
  BY <1>27 DEF ResultChanges, pushVars, TypeInv, PushShape, Sending
<1>28. CASE ApiRestarts
  BY <1>28 DEF ApiRestarts, Step, destinationVars, apiVars, pushVars, undoVars, TypeOK, TypeInv, PushShape, Sending
<1>29. CASE DestinationRestarts
  BY <1>29 DEF DestinationRestarts, pushVars, TypeInv, PushShape, Sending
<1>30. CASE UNCHANGED vars
  BY <1>30 DEF vars, TypeInv, PushShape, Sending
<1>31. QED
  BY <1>1, <1>2, <1>3, <1>4, <1>5, <1>6, <1>7, <1>8, <1>9, <1>10, <1>11, <1>12, <1>13, <1>14, <1>15, <1>16, <1>17, <1>18, <1>19, <1>20, <1>21, <1>22, <1>23, <1>24, <1>25, <1>26, <1>27, <1>28, <1>29, <1>30
     DEF Next, PusherStep, UndoerStep, DestinationStep, RequestStep, FaultStep, Pushers


\* A step of a push or of the destination's handler of sends leaves rollbacks alone.
LEMMA UndoShapeStep == TypeInv /\ [Next]_vars => UndoShape'
<1>. SUFFICES ASSUME TypeInv, [Next]_vars PROVE UndoShape'
  OBVIOUS
<1>1. CASE UNCHANGED <<undos, upc, target>>
  BY <1>1 DEF TypeInv, UndoShape
<1>2. ASSUME NEW q \in undos, DestinationUndoes(q) PROVE UndoShape'
  <2>1. \A p \in undos : p.by # Nobody => p.by \in Undoers
    BY DEF TypeInv, TypeOK, UndoRequests
  <2>2. QED
    BY <1>2, <2>1 DEF DestinationUndoes, TypeInv, TypeOK, UndoShape
<1>3. ASSUME NEW u \in Undoers, BeginUndo(u) \/ ReadTargets(u) \/ PauseSending(u)
             \/ RecordUndo(u)
      PROVE  UndoShape'
  BY <1>3 DEF BeginUndo, ReadTargets, PauseSending, RecordUndo, UndoStep, TypeInv, TypeOK,
     UndoShape, UndoRequests
<1>4. ASSUME NEW u \in Undoers, NEW t \in targets[u], AskUndo(u, t) PROVE UndoShape'
  BY <1>4 DEF AskUndo, UndoStep, TypeInv, TypeOK, UndoShape, UndoRequests
<1>5. ASSUME NEW u \in Undoers, NoUndoAnswer(u) PROVE UndoShape'
  <2>1. \A p \in undos' : p.by # Nobody => p \in undos /\ p.by # u
    BY <1>5 DEF NoUndoAnswer, TypeInv, TypeOK, UndoRequests
  <2>2. QED
    BY <1>5, <2>1 DEF NoUndoAnswer, UndoStep, TypeInv, TypeOK, UndoShape, UndoRequests
<1>6. CASE ApiRestarts
  <2>1. \A p \in undos' : p.by = Nobody
    BY <1>6 DEF ApiRestarts, TypeInv, TypeOK, UndoRequests
  <2>2. QED
    BY <2>1 DEF UndoShape
<1>7. CASE DestinationRestarts
  BY <1>7 DEF DestinationRestarts, UndoShape
<1>8. ASSUME NEW w \in Pushers, PusherStep(w) PROVE UndoShape'
  BY <1>1, <1>8 DEF PusherStep, Arm, Load, Gate, ReadAlready, ReadGenerations, Pick, Finish, Send,
     ReconcileFinds, ReconcileMisses, RecordAttempt, undoVars
<1>9. ASSUME NEW q \in creates,
             DestinationKnows(q) \/ DestinationMisses(q) \/ DestinationHandles(q)
      PROVE  UndoShape'
  BY <1>1, <1>9 DEF DestinationKnows, DestinationMisses, DestinationHandles, undoVars
<1>10. ASSUME NEW w \in Pushers,
              \/ \E mode, keep : Press(w, mode, keep)
              \/ \E outcome : NoAnswer(w, outcome)
              \/ \E disarmed : Unreachable(w, disarmed) \/ Finish(w, disarmed)
              \/ ReconcileFails(w)
       PROVE  UndoShape'
  BY <1>1, <1>10 DEF Press, NoAnswer, Unreachable, Finish, ReconcileFails, undoVars
<1>11. CASE (\E w \in Jobs : JobReady(w)) \/ ResultChanges
  BY <1>1, <1>11 DEF JobReady, ResultChanges, undoVars
<1>12. CASE UNCHANGED vars
  BY <1>1, <1>12 DEF vars
<1>13. QED
  <2>1. CASE \E u \in Undoers : UndoerStep(u)
    BY <1>3, <1>4, <2>1 DEF UndoerStep
  <2>2. CASE DestinationStep
    BY <1>2, <1>9, <2>2 DEF DestinationStep
  <2>3. CASE RequestStep
    BY <1>3, <1>10, <1>11, <2>3 DEF RequestStep, Pushers
  <2>4. CASE FaultStep
    BY <1>5, <1>6, <1>7, <1>10, <2>4 DEF FaultStep, Pushers
  <2>5. QED
    BY <1>8, <1>12, <2>1, <2>2, <2>3, <2>4 DEF Next

\* The requests of pushes: only their thread's own steps and the destination's
\* handlers touch them.
LEMMA CreateShapeStep == TypeInv /\ [Next]_vars => CreateShape'
<1>. SUFFICES ASSUME TypeInv, [Next]_vars PROVE CreateShape'
  OBVIOUS
<1>1. CASE UNCHANGED <<creates, pc, current, gens>>
  BY <1>1 DEF TypeInv, CreateShape
<1>2. \A q \in creates : q.by # Nobody => q.by \in Pushers /\ pc[q.by] = "await"
  BY DEF TypeInv, TypeOK, CreateRequests, CreateShape
<1>3. ASSUME NEW w \in Pushers, pc[w] # "await", UNCHANGED creates,
             \A v \in Pushers \ {w} : /\ pc'[v] = pc[v]
                                      /\ current'[v] = current[v]
                                      /\ gens'[v] = gens[v]
      PROVE  CreateShape'
  BY <1>2, <1>3 DEF TypeInv, CreateShape
<1>4. ASSUME NEW w \in Pushers, PusherStep(w), ~Send(w) PROVE CreateShape'
  BY <1>3, <1>4 DEF PusherStep, Arm, Load, Gate, ReadAlready, ReadGenerations, Pick, Finish,
     ReconcileFinds, ReconcileMisses, RecordAttempt, Step, TypeInv, TypeOK
<1>5. ASSUME NEW w \in Pushers, Send(w) PROVE CreateShape'
  <2>1. \A q \in creates : q.by # w
    BY <1>2, <1>5, ThreadsAssumption DEF Send, Step, Pushers
  <2>2. pc'[w] = "await" /\ \A v \in Pushers \ {w} : pc'[v] = pc[v]
    BY <1>5 DEF Send, Step, TypeInv, TypeOK
  <2>3. PICK s : /\ creates' = creates \union {s}
                 /\ s.by = w /\ s.key = current[w] /\ s.gen = gens[w][current[w]]
    <3>. DEFINE new == [by |-> w, key |-> current[w], gen |-> gens[w][current[w]],
                        payload |-> ready[w][current[w]], isNew |-> FALSE]
    <3>1. creates' = creates \union {new}
      BY <1>5 DEF Send
    <3>2. new.by = w /\ new.key = current[w] /\ new.gen = gens[w][current[w]]
      OBVIOUS
    <3>. HIDE DEF new
    <3>3. QED
      BY <3>1, <3>2
  <2>4. UNCHANGED <<current, gens>>
    BY <1>5 DEF Send
  <2>5. \A q \in creates' : q.by # Nobody => pc'[q.by] = "await" /\ q.key = current[q.by]
                                            /\ q.gen = gens[q.by][q.key]
    BY <1>2, <2>1, <2>2, <2>3 DEF TypeInv, CreateShape
  <2>6. \A p, q \in creates' : p.by # Nobody /\ p.by = q.by => p = q
    BY <2>1, <2>3 DEF TypeInv, CreateShape
  <2>7. QED
    BY <2>4, <2>5, <2>6 DEF CreateShape
<1>6. ASSUME NEW w \in Pushers,
             \/ \E mode, keep : Press(w, mode, keep)
             \/ \E disarmed : Unreachable(w, disarmed) \/ Finish(w, disarmed)
             \/ ReconcileFails(w)
      PROVE  CreateShape'
  BY <1>3, <1>6 DEF Press, Unreachable, Finish, ReconcileFails, Step, TypeInv, TypeOK
<1>7. ASSUME NEW w \in Jobs, JobReady(w) PROVE CreateShape'
  BY <1>3, <1>7 DEF JobReady, Step, Pushers, TypeInv, TypeOK
<1>8. ASSUME NEW w \in Pushers, NEW outcome, NoAnswer(w, outcome) PROVE CreateShape'
  <2>1. \A p \in creates' : p.by # Nobody => p \in creates /\ p.by # w
    BY <1>8 DEF NoAnswer, TypeInv, TypeOK, CreateRequests
  <2>2. \A v \in Pushers \ {w} : pc'[v] = pc[v]
    BY <1>8 DEF NoAnswer, Concludes, TypeInv, TypeOK
  <2>3. UNCHANGED <<current, gens>>
    BY <1>8 DEF NoAnswer
  <2>4. QED
    BY <1>2, <2>1, <2>2, <2>3 DEF TypeInv, CreateShape
<1>9. ASSUME NEW q \in creates, DestinationKnows(q) \/ DestinationHandles(q)
      PROVE  CreateShape'
  <2>1. creates' = creates \ {q} /\ UNCHANGED <<current, gens>>
    BY <1>9 DEF DestinationKnows, DestinationHandles
  <2>2. \A v \in Pushers : v # q.by => pc'[v] = pc[v]
    BY <1>9 DEF DestinationKnows, DestinationHandles, Hears, Concludes, TypeInv, TypeOK
  <2>3. \A p \in creates' : p.by # Nobody => p.by # q.by
    BY <2>1 DEF TypeInv, CreateShape
  <2>4. QED
    BY <1>2, <2>1, <2>2, <2>3 DEF TypeInv, CreateShape
<1>10. ASSUME NEW q \in creates, DestinationMisses(q) PROVE CreateShape'
  <2>1. UNCHANGED <<pc, current, gens>>
    BY <1>10 DEF DestinationMisses, pushVars
  <2>2. PICK s : /\ creates' = (creates \ {q}) \union {s}
                 /\ s.by = q.by /\ s.key = q.key /\ s.gen = q.gen
    <3>1. q \in CreateRequests
      BY DEF TypeInv, TypeOK
    <3>2. /\ [q EXCEPT !.isNew = TRUE].by = q.by
          /\ [q EXCEPT !.isNew = TRUE].key = q.key
          /\ [q EXCEPT !.isNew = TRUE].gen = q.gen
      BY <3>1 DEF CreateRequests
    <3>3. QED
      BY <1>10, <3>2 DEF DestinationMisses
  <2>3. QED
    BY <2>1, <2>2 DEF TypeInv, CreateShape
<1>11. CASE ApiRestarts
  <2>1. \A p \in creates' : p.by = Nobody
    BY <1>11 DEF ApiRestarts, TypeInv, TypeOK, CreateRequests
  <2>2. QED
    BY <2>1 DEF CreateShape
<1>12. CASE DestinationRestarts
  BY <1>12 DEF DestinationRestarts, CreateShape
<1>13. ASSUME NEW u \in Undoers, UndoerStep(u) \/ BeginUndo(u) \/ NoUndoAnswer(u)
       PROVE  CreateShape'
  BY <1>1, <1>13 DEF UndoerStep, ReadTargets, AskUndo, RecordUndo, PauseSending, BeginUndo,
     NoUndoAnswer, pushVars
<1>14. ASSUME NEW q \in undos, DestinationUndoes(q) PROVE CreateShape'
  BY <1>1, <1>14 DEF DestinationUndoes, pushVars
<1>15. CASE ResultChanges
  BY <1>1, <1>15 DEF ResultChanges, pushVars
<1>16. CASE UNCHANGED vars
  BY <1>1, <1>16 DEF vars
<1>17. QED
  <2>1. CASE DestinationStep
    BY <1>9, <1>10, <1>14, <2>1 DEF DestinationStep
  <2>2. CASE RequestStep
    BY <1>6, <1>7, <1>13, <1>15, <2>2 DEF RequestStep, Pushers
  <2>3. CASE FaultStep
    BY <1>6, <1>8, <1>11, <1>12, <1>13, <2>3 DEF FaultStep, Pushers
  <2>4. QED
    BY <1>4, <1>5, <1>13, <1>16, <2>1, <2>2, <2>3 DEF Next

\* The log only grows, one row of one record at a time.
LEMMA LogStep ==
    ASSUME TypeInv, [Next]_vars
    PROVE  \/ log' = log
           \/ \E w \in Pushers : RecordAttempt(w)
           \/ \E u \in Undoers : RecordUndo(u)
<1>1. ASSUME NEW w \in Pushers, PusherStep(w), ~RecordAttempt(w) PROVE log' = log
  BY <1>1 DEF PusherStep, Arm, Load, Gate, ReadAlready, ReadGenerations, Pick, Finish, Send,
     ReconcileFinds, ReconcileMisses, apiVars
<1>2. ASSUME NEW u \in Undoers, UndoerStep(u), ~RecordUndo(u) PROVE log' = log
  BY <1>2 DEF UndoerStep, ReadTargets, AskUndo, PauseSending, apiVars
<1>3. CASE DestinationStep
  BY <1>3 DEF DestinationStep, DestinationKnows, DestinationMisses, DestinationHandles,
     DestinationUndoes, apiVars
<1>4. CASE RequestStep
  BY <1>4 DEF RequestStep, Press, JobReady, BeginUndo, ResultChanges, apiVars
<1>5. CASE FaultStep
  BY <1>5 DEF FaultStep, NoAnswer, Unreachable, Finish, ReconcileFails, NoUndoAnswer,
     ApiRestarts, DestinationRestarts, apiVars
<1>6. QED
  BY <1>1, <1>2, <1>3, <1>4, <1>5 DEF Next, vars

LEMMA TopGenerationStep == TypeInv /\ [Next]_vars => TopGeneration'
<1>. SUFFICES ASSUME TypeInv, [Next]_vars PROVE TopGeneration'
  OBVIOUS
<1>1. TypeOK'
  BY TypeOKStep
<1>2. ASSUME NEW k \in Keys, NEW row, log' = [log EXCEPT ![k] = Append(@, row)], row \in Rows
      PROVE  TopGeneration'
  BY <1>2, AppendKeepsTop DEF TypeInv, TypeOK, TopGeneration
<1>3. CASE log' = log
  BY <1>3 DEF TypeInv, TopGeneration
<1>4. ASSUME NEW w \in Pushers, RecordAttempt(w) PROVE TopGeneration'
  <2>1. tried[w] \in Seq(Attempts) /\ tried[w] # <<>>
    BY <1>4 DEF RecordAttempt, Step, PushShape, TypeInv, TypeOK
  <2>2. Head(tried[w]) \in Attempts
    BY <2>1, HeadTailProperties
  <2>3. [gen |-> gens[w][current[w]], outcome |-> Head(tried[w]).outcome,
         id |-> Head(tried[w]).id] \in Rows
    BY <2>2 DEF Rows, Attempts, TypeInv, TypeOK
  <2>4. QED
    BY <1>2, <1>4, <2>3 DEF RecordAttempt, TypeInv, TypeOK
<1>5. ASSUME NEW u \in Undoers, RecordUndo(u) PROVE TopGeneration'
  <2>1. target[u] \in Targets
    BY DEF TypeInv, TypeOK
  <2>2. UndoRow(target[u], upc[u] = "undone") \in Rows
    BY <2>1 DEF UndoRow, Targets, Rows, UndoOutcomes
  <2>3. QED
    BY <1>2, <1>5, <2>1, <2>2 DEF RecordUndo, Targets
<1>6. QED
  BY <1>3, <1>4, <1>5, LogStep

LEMMA TypeInvariance == Spec => []TypeInv
<1>1. TypeInv /\ [Next]_vars => TypeInv'
  BY TypeOKStep, PushShapeStep, CreateShapeStep, UndoShapeStep, TopGenerationStep DEF TypeInv
<1>2. QED
  BY InitTypeInv, <1>1, PTL DEF Spec

\* Every variable stays in its type, and what a thread holds stays in shape.
THEOREM TypeCorrect == Spec => []TypeOK
<1>1. TypeInv => TypeOK
  BY DEF TypeInv
<1>2. QED
  BY TypeInvariance, <1>1, PTL

-----------------------------------------------------------------------------
(***************************************************************************)
(* Attempts are bounded, and only an outcome that calls for another one is *)
(* followed by another one.                                                *)
(***************************************************************************)

\* Where another attempt may still be made, all those made called for it.
Attempting == {"send", "await", "reconcile"}
CallsForMore(w) == \A i \in DOMAIN tried[w] : tried[w][i].outcome \in Retryables
AttemptsOf(w) ==
    /\ Len(tried[w]) <= MAX_ATTEMPTS
    /\ \A i \in 1 .. Len(tried[w]) - 1 : tried[w][i].outcome \in Retryables
    /\ pc[w] \in Attempting => Len(tried[w]) < MAX_ATTEMPTS /\ CallsForMore(w)
AttemptsInv == \A w \in Pushers : AttemptsOf(w)

\* One more attempt, and where the push goes from there.
Attempted(w, a) ==
    /\ pc[w] \in Attempting
    /\ tried'[w] = Append(tried[w], a)
    /\ pc'[w] = "record" \/ (a.outcome \in Retryables /\ Len(tried[w]) + 1 # MAX_ATTEMPTS)

LEMMA AttemptKeeps ==
    ASSUME TypeOK, NEW w \in Pushers, AttemptsOf(w), NEW a \in Attempts, Attempted(w, a)
    PROVE  AttemptsOf(w)'
<1>. DEFINE s == tried[w]
            n == Len(s)
<1>1. s \in Seq(Attempts) /\ n \in Nat /\ DOMAIN s = 1 .. n
  BY LenProperties DEF TypeOK
<1>2. /\ Len(Append(s, a)) = n + 1
      /\ DOMAIN Append(s, a) = 1 .. n + 1
      /\ \A i \in 1 .. n : Append(s, a)[i] = s[i]
      /\ Append(s, a)[n + 1] = a
  BY <1>1, AppendProperties
<1>3. n < MAX_ATTEMPTS /\ \A i \in 1 .. n : s[i].outcome \in Retryables
  BY <1>1 DEF AttemptsOf, Attempted, CallsForMore
<1>4. MAX_ATTEMPTS \in Nat
  BY MaxAttemptsAssumption
<1>5. tried'[w] = Append(s, a)
  BY DEF Attempted
<1>. HIDE DEF s, n
<1>6. Len(tried'[w]) <= MAX_ATTEMPTS
  BY <1>1, <1>2, <1>3, <1>4, <1>5
<1>7. \A i \in 1 .. Len(tried'[w]) - 1 : tried'[w][i].outcome \in Retryables
  BY <1>1, <1>2, <1>3, <1>5
<1>8. ASSUME pc'[w] \in Attempting
      PROVE  Len(tried'[w]) < MAX_ATTEMPTS /\ CallsForMore(w)'
  <2>1. a.outcome \in Retryables /\ n + 1 # MAX_ATTEMPTS
    BY <1>8 DEF Attempted, Attempting, s, n
  <2>2. Len(tried'[w]) < MAX_ATTEMPTS
    BY <1>1, <1>2, <1>3, <1>4, <1>5, <2>1
  <2>3. \A i \in 1 .. n + 1 : tried'[w][i].outcome \in Retryables
    BY <1>1, <1>2, <1>3, <1>5, <2>1
  <2>4. QED
    BY <1>2, <1>5, <2>2, <2>3 DEF CallsForMore
<1>9. QED
  BY <1>6, <1>7, <1>8 DEF AttemptsOf

\* The attempts left to write down are the last ones.
LEMMA RecordKeeps ==
    ASSUME TypeInv, NEW w \in Pushers, AttemptsOf(w), RecordAttempt(w)
    PROVE  AttemptsOf(w)'
<1>. DEFINE s == tried[w]
            n == Len(s)
<1>1. s \in Seq(Attempts) /\ s # <<>> /\ tried'[w] = Tail(s)
  BY DEF RecordAttempt, Step, PushShape, TypeInv, TypeOK
<1>2. /\ n \in Nat \ {0} /\ Len(Tail(s)) = n - 1
      /\ \A i \in 1 .. n - 1 : Tail(s)[i] = s[i + 1]
  BY <1>1, HeadTailProperties, LenProperties, EmptyByLength
<1>3. pc'[w] \notin Attempting
  BY DEF RecordAttempt, Step, Attempting, TypeInv, TypeOK
<1>4. n <= MAX_ATTEMPTS /\ \A i \in 1 .. n - 1 : s[i].outcome \in Retryables
  BY DEF AttemptsOf
<1>5. MAX_ATTEMPTS \in Nat
  BY MaxAttemptsAssumption
<1>. HIDE DEF s, n
<1>6. Len(tried'[w]) <= MAX_ATTEMPTS
  BY <1>1, <1>2, <1>4, <1>5
<1>7. \A i \in 1 .. Len(tried'[w]) - 1 : tried'[w][i].outcome \in Retryables
  BY <1>1, <1>2, <1>4
<1>8. QED
  BY <1>3, <1>6, <1>7 DEF AttemptsOf

\* A push that has nothing in hand.
LEMMA NothingTried ==
    ASSUME NEW w \in Pushers, tried'[w] = <<>>
    PROVE  AttemptsOf(w)'
<1>1. Len(tried'[w]) = 0 /\ DOMAIN tried'[w] = {}
  OBVIOUS
<1>2. MAX_ATTEMPTS \in Nat \ {0}
  BY MaxAttemptsAssumption
<1>3. QED
  BY <1>1, <1>2 DEF AttemptsOf, CallsForMore

\* What an answer, or the lack of one, makes of the attempts.
LEMMA ConcludesKeeps ==
    ASSUME TypeOK, NEW w \in Pushers, AttemptsOf(w), pc[w] = "await",
           NEW outcome \in SendOutcomes, NEW id \in Ids, Concludes(w, outcome, id)
    PROVE  /\ AttemptsOf(w)'
           /\ \A v \in Pushers \ {w} : UNCHANGED <<pc[v], tried[v]>>
<1>. DEFINE a == [outcome |-> outcome, id |-> id]
<1>1. a \in Attempts /\ a.outcome = outcome
  BY DEF Attempts
<1>2. tried'[w] = Append(tried[w], a) /\ pc'[w] = AfterAttempt(outcome, Len(tried[w]) + 1)
  BY DEF Concludes, TypeOK
<1>3. \A v \in Pushers \ {w} : UNCHANGED <<pc[v], tried[v]>>
  BY DEF Concludes, TypeOK
<1>. HIDE DEF a
<1>4. Attempted(w, a)
  BY <1>1, <1>2 DEF Attempted, Attempting, AfterAttempt
<1>5. QED
  BY <1>1, <1>3, <1>4, AttemptKeeps

LEMMA HearsKeeps ==
    ASSUME TypeInv, AttemptsInv, NEW q \in creates, NEW id \in Ids,
           NEW status \in Statuses \union {"duplicate", "conflict"},
           Hears(q, Answer(status, id))
    PROVE  AttemptsInv'
<1>1. CASE q.by = Nobody
  BY <1>1 DEF Hears, AttemptsInv, AttemptsOf, CallsForMore
<1>2. CASE q.by # Nobody
  <2>1. q.by \in Pushers /\ pc[q.by] = "await"
    BY <1>2 DEF TypeInv, TypeOK, CreateRequests, CreateShape
  <2>2. Concludes(q.by, Classify(status), id)
    BY <1>2 DEF Hears, Answer
  <2>3. AttemptsOf(q.by)' /\ \A v \in Pushers \ {q.by} : UNCHANGED <<pc[v], tried[v]>>
    BY <2>1, <2>2, ClassifyType, ConcludesKeeps DEF AttemptsInv, TypeInv
  <2>4. QED
    BY <2>3 DEF AttemptsInv, AttemptsOf, CallsForMore
<1>3. QED
  BY <1>1, <1>2

LEMMA AttemptsStep ==
    ASSUME TypeInv, AttemptsInv, [Next]_vars
    PROVE  AttemptsInv'
<1>1. ASSUME NEW w \in Pushers, tried'[w] = tried[w],
             pc'[w] = pc[w] \/ pc[w] \in Attempting \/ pc'[w] \notin Attempting
      PROVE  AttemptsOf(w)'
  BY <1>1 DEF AttemptsInv, AttemptsOf, CallsForMore
<1>2. ASSUME UNCHANGED <<pc, tried>> PROVE AttemptsInv'
  BY <1>1, <1>2 DEF AttemptsInv
<1>3. ASSUME NEW w \in Pushers, AttemptsOf(w)',
             \A v \in Pushers \ {w} : UNCHANGED <<pc[v], tried[v]>>
      PROVE  AttemptsInv'
  BY <1>1, <1>3 DEF AttemptsInv
\* Steps of a push that leave its attempts alone.
<1>4. ASSUME NEW w \in Pushers, NEW from, NEW to, Step(w, from, to), UNCHANGED tried,
             from \in Attempting \/ to \notin Attempting
      PROVE  AttemptsInv'
  <2>1. pc[w] = from /\ pc'[w] = to /\ \A v \in Pushers \ {w} : pc'[v] = pc[v]
    BY <1>4 DEF Step, TypeInv, TypeOK
  <2>2. QED
    BY <1>1, <1>4, <2>1 DEF AttemptsInv
<1>5. ASSUME NEW w \in Pushers, Arm(w) \/ Load(w) \/ Gate(w) \/ ReadAlready(w)
                                \/ ReadGenerations(w) \/ ReconcileMisses(w)
                                \/ ReconcileFails(w) \/ Send(w) \/ JobReady(w)
      PROVE  AttemptsInv'
  BY <1>4, <1>5 DEF Arm, Load, Gate, ReadAlready, ReadGenerations, ReconcileMisses,
     ReconcileFails, Send, JobReady, Attempting
<1>6. ASSUME NEW w \in Pushers, NEW disarmed, Finish(w, disarmed) PROVE AttemptsInv'
  BY <1>4, <1>6 DEF Finish, Attempting
<1>7. ASSUME NEW w \in Pushers, NEW mode, NEW keep, Press(w, mode, keep) PROVE AttemptsInv'
  BY <1>4, <1>7 DEF Press, Attempting
<1>8. ASSUME NEW w \in Pushers, NEW disarmed, Unreachable(w, disarmed) PROVE AttemptsInv'
  <2>1. pc'[w] = "idle" /\ tried' = tried /\ \A v \in Pushers \ {w} : pc'[v] = pc[v]
    BY <1>8 DEF Unreachable, TypeInv, TypeOK
  <2>2. QED
    BY <1>1, <2>1 DEF AttemptsInv, Attempting
<1>9. ASSUME NEW w \in Pushers, NEW k, Pick(w, k) PROVE AttemptsInv'
  <2>1. pc[w] = "pick" /\ tried' = tried /\ \A v \in Pushers \ {w} : pc'[v] = pc[v]
    BY <1>9 DEF Pick, Step, TypeInv, TypeOK
  <2>2. tried'[w] = <<>>
    BY <2>1 DEF TypeInv, PushShape, Sending
  <2>3. QED
    BY <1>3, <2>1, <2>2, NothingTried
<1>10. ASSUME NEW w \in Pushers, NEW r \in records, ReconcileFinds(w, r.gen)
       PROVE  AttemptsInv'
  <2>. DEFINE a == [outcome |-> "duplicate", id |-> r.gen]
  <2>1. a \in Attempts
    BY DEF Attempts, Ids, SendOutcomes, Successes, TypeInv, TypeOK, DestinationTypeOK,
       StoredRecords
  <2>2. /\ pc[w] = "reconcile" /\ pc'[w] = "record" /\ tried'[w] = Append(tried[w], a)
        /\ \A v \in Pushers \ {w} : UNCHANGED <<pc[v], tried[v]>>
    BY <1>10 DEF ReconcileFinds, TypeInv, TypeOK
  <2>. HIDE DEF a
  <2>3. AttemptsOf(w)'
    BY <2>1, <2>2, AttemptKeeps DEF Attempted, Attempting, AttemptsInv, TypeInv
  <2>4. QED
    BY <1>3, <2>2, <2>3
<1>11. ASSUME NEW w \in Pushers, RecordAttempt(w) PROVE AttemptsInv'
  <2>1. \A v \in Pushers \ {w} : UNCHANGED <<pc[v], tried[v]>>
    BY <1>11 DEF RecordAttempt, Step, TypeInv, TypeOK
  <2>2. QED
    BY <1>3, <1>11, <2>1, RecordKeeps DEF AttemptsInv
<1>12. ASSUME NEW w \in Pushers, NEW outcome \in Retryables, NoAnswer(w, outcome)
       PROVE  AttemptsInv'
  <2>1. outcome \in SendOutcomes /\ NoId \in Ids
    BY DEF SendOutcomes, Ids, NoId
  <2>2. AttemptsOf(w)' /\ \A v \in Pushers \ {w} : UNCHANGED <<pc[v], tried[v]>>
    BY <1>12, <2>1, ConcludesKeeps DEF NoAnswer, AttemptsInv, TypeInv
  <2>3. QED
    BY <1>3, <2>2
<1>13. ASSUME NEW q \in creates, DestinationKnows(q) PROVE AttemptsInv'
  <2>1. PICK status \in {"duplicate", "conflict"}, id \in {NoId, q.gen} :
          Hears(q, Answer(status, id))
    BY <1>13 DEF DestinationKnows
  <2>2. id \in Ids
    BY <2>1 DEF Ids, NoId, CreateRequests, TypeOK, TypeInv
  <2>3. QED
    BY <2>1, <2>2, HearsKeeps
<1>14. ASSUME NEW q \in creates, DestinationHandles(q) PROVE AttemptsInv'
  <2>1. PICK status \in Statuses, id \in {NoId, Phantom, q.gen} :
          Hears(q, Answer(status, id))
    BY <1>14 DEF DestinationHandles
  <2>2. id \in Ids
    BY <2>1 DEF Ids, NoId, CreateRequests, TypeOK, TypeInv
  <2>3. QED
    BY <2>1, <2>2, HearsKeeps
<1>15. CASE ApiRestarts
  <2>1. \A w \in Pushers : tried'[w] = <<>>
    BY <1>15 DEF ApiRestarts
  <2>2. QED
    BY <2>1, NothingTried DEF AttemptsInv
<1>16. ASSUME NEW w \in Pushers, PusherStep(w) PROVE AttemptsInv'
  BY <1>5, <1>6, <1>9, <1>10, <1>11, <1>16 DEF PusherStep
<1>17. ASSUME NEW u \in Undoers, UndoerStep(u) \/ BeginUndo(u) \/ NoUndoAnswer(u)
       PROVE  AttemptsInv'
  BY <1>2, <1>17 DEF UndoerStep, ReadTargets, AskUndo, RecordUndo, PauseSending, BeginUndo,
     NoUndoAnswer, pushVars
<1>18. CASE DestinationStep
  <2>1. ASSUME NEW q \in undos, DestinationUndoes(q) PROVE AttemptsInv'
    BY <1>2, <2>1 DEF DestinationUndoes, pushVars
  <2>2. ASSUME NEW q \in creates, DestinationMisses(q) PROVE AttemptsInv'
    BY <1>2, <2>2 DEF DestinationMisses, pushVars
  <2>3. QED
    BY <1>13, <1>14, <1>18, <2>1, <2>2 DEF DestinationStep
<1>19. CASE RequestStep
  <2>1. CASE ResultChanges
    BY <1>2, <2>1 DEF ResultChanges, pushVars
  <2>2. QED
    BY <1>5, <1>7, <1>17, <1>19, <2>1 DEF RequestStep, Pushers
<1>20. CASE FaultStep
  <2>1. CASE DestinationRestarts
    BY <1>2, <2>1 DEF DestinationRestarts, pushVars
  <2>2. QED
    BY <1>5, <1>6, <1>8, <1>12, <1>15, <1>17, <1>20, <2>1 DEF FaultStep, Pushers
<1>21. CASE UNCHANGED vars
  BY <1>2, <1>21 DEF vars
<1>22. QED
  BY <1>16, <1>17, <1>18, <1>19, <1>20, <1>21 DEF Next

\* A permanent refusal is never retried and the attempts of a push are bounded,
\* whatever answers come late, twice or never: an attempt is followed by another
\* one only after an outcome that calls for it.
THEOREM RetriesAlwaysFollowOutcomes == Spec => []RetriesFollowOutcomes
<1>1. Init => AttemptsInv
  BY NothingTried, MaxAttemptsAssumption DEF Init, AttemptsInv, AttemptsOf, CallsForMore
<1>2. TypeInv /\ AttemptsInv /\ [Next]_vars => AttemptsInv'
  BY AttemptsStep
<1>3. AttemptsInv => RetriesFollowOutcomes
  BY DEF AttemptsInv, AttemptsOf, RetriesFollowOutcomes
<1>4. QED
  BY <1>1, <1>2, <1>3, TypeInvariance, PTL DEF Spec
=============================================================================
